---- MODULE Spec2Model ----
(***************************************************************************)
(* A model of recommendations.py: the similarity functions, the TF-IDF,    *)
(* hybrid and feature-encoding recommenders, and the leave-one-out         *)
(* cross-validation loop loo_cv_sim.                                       *)
(*                                                                         *)
(* Numbers.  Python floats are modelled as exact rationals <<n, d>> in     *)
(* lowest terms with d > 0, without rounding, except under SpecF64, whose  *)
(* cosine cells are binary64 floats and whose arithmetic rounds as IEEE    *)
(* 754 does.  None is <<>>.                                                *)
(* Dictionaries are functions; `del d[k]` and `d[k] = v` restrict and      *)
(* extend the domain.  Mutable objects that the code copies with deepcopy  *)
(* live in a memory (address -> value) so that aliasing is expressible.    *)
(* Python's 0-based cosim_matrix[i-1][j-1] is the 1-based cell [i][j].     *)
(***************************************************************************)
EXTENDS Integers, Sequences, FiniteSets, TLC

VARIABLES
    pc,             \* position in the running function
    movies,         \* id (string) -> title
    pmem,           \* memory of rating matrices: address -> (user -> title -> rating)
    prefs,          \* address of the rating matrix passed in
    prefs0,         \* history: the rating matrix as it was when the call began
    cmem,           \* memory of cosine matrices: address -> matrix
    sim_matrix,     \* address of the cosine matrix passed in
    cosim0,         \* history: the cosine matrix as it was when the call began
    itemsim,        \* item-item similarity: title -> title -> score
    features,       \* feature matrix: one row of 0/1 per item
    algo,           \* the single-item recommender handed to loo_cv_sim
    sim_threshold,
    weighted,
    newPrefs,       \* address of loo_cv_sim's working copy (0: not yet made)
    newMovies,      \* title -> id
    userKeys,       \* list(prefs.keys())
    ui,             \* index into userKeys of the user i of the outer loop
    outKeys,        \* list(prefs[i].keys())
    oi,             \* index into outKeys of the item `out` of the inner loop
    save,
    rec,
    fills,          \* history: the zero cosine cells the last hybrid call filled in
    error_list,
    true_list,
    pred_list,
    ws,             \* the worksheet row written at the end
    call,           \* the function last called from the driver, with its arguments
    ret,            \* the value it returned
    printed,        \* the list it printed
    exc             \* the exception that left the function ("" if none)

inVars   == <<movies, prefs, prefs0, sim_matrix, cosim0, itemsim, features, algo, sim_threshold,
              weighted>>
looVars  == <<newPrefs, newMovies, userKeys, ui, outKeys, oi, save, rec, fills,
              error_list, true_list, pred_list, ws>>
callVars == <<call, ret, printed>>
vars     == <<pc, pmem, cmem, exc, inVars, looVars, callVars>>

-----------------------------------------------------------------------------
(* Exact rationals *)

Abs(x) == IF x < 0 THEN -x ELSE x

RECURSIVE GCD(_, _)
GCD(a, b) == IF b = 0 THEN a ELSE GCD(b, a % b)

Rat(n, d) ==
    LET g == GCD(Abs(n), Abs(d))
        s == IF d < 0 THEN -1 ELSE 1
    IN  <<(s * n) \div g, (s * d) \div g>>

RInt(x)    == <<x, 1>>
RZero      == <<0, 1>>

\* IEEE-754 binary64.  A non-negative Python float given with its rounding is
\* <<"f64", m, e>>: the value m * 2^e, where m is a natural number written as
\* its binary digits, the most significant first, odd and of at most 53 digits;
\* 0.0 is RZero.  The operations round to nearest, ties to even.

\* The loops over the digits run block by block, BLK digits to a block.
BLK == 12

\* a < b on binary numerals without leading zeros
BLt(a, b) ==
    IF Len(a) # Len(b) THEN Len(a) < Len(b)
    ELSE \E i \in 1..Len(a) : a[i] < b[i] /\ SubSeq(a, 1, i - 1) = SubSeq(b, 1, i - 1)

\* a + b (sign = 1) or a - b (sign = -1, a >= b) on binary numerals, digit by
\* digit from the least significant one; st is <<carry or borrow, digits so far>>
BAdd(a, b, sign) ==
    LET n == IF Len(a) > Len(b) THEN Len(a) ELSE Len(b)
        Bit(x, i) == IF i < Len(x) THEN x[Len(x) - i] ELSE 0
        D(i, st) == Bit(a, i) + sign * (Bit(b, i) + st[1])
        Step(d, st) ==
            IF d > 1 THEN <<1, <<d - 2>> \o st[2]>>
            ELSE IF d < 0 THEN <<1, <<d + 2>> \o st[2]>>
            ELSE <<0, <<d>> \o st[2]>>
        RECURSIVE Digits2(_, _, _)
        Digits2(i, hi, st) ==
            IF i > hi \/ st[1] > 1 THEN st
            ELSE Digits2(i + 1, hi, Step(D(i, st), st))
        RECURSIVE Blocks(_, _)
        Blocks(k, st) ==
            IF k * BLK >= n THEN st
            ELSE Blocks(k + 1, Digits2(k * BLK, IF (k + 1) * BLK < n THEN (k + 1) * BLK - 1 ELSE n - 1,
                                       st))
        Trim(t) ==
            IF \A i \in 1..Len(t) : t[i] = 0 THEN <<>>
            ELSE SubSeq(t, CHOOSE i \in 1..Len(t) : t[i] = 1 /\ \A j \in 1..(i - 1) : t[j] = 0, Len(t))
        Out(r) == Trim(IF sign = 1 THEN <<r[1]>> \o r[2] ELSE r[2])
    IN  Out(Blocks(0, <<0, <<>>>>))

\* The float nearest to m * 2^e (plus a non-zero part below the last digit of m
\* when sticky): 53 digits are kept, the rest rounds to nearest, ties to even
f64_round(m, e, sticky) ==
    LET keep == SubSeq(m, 1, 53)
        up   == m[54] = 1 /\ (sticky \/ keep[53] = 1 \/ \E i \in 55..Len(m) : m[i] = 1)
        Last(r) == CHOOSE i \in 1..Len(r) : r[i] = 1 /\ \A j \in (i + 1)..Len(r) : r[j] = 0
        Cut(r, k, last) == <<"f64", SubSeq(r, 1, last), e + k + (Len(r) - last)>>
        Strip(r, k) == Cut(r, k, Last(r))
    IN  IF m = <<>> THEN RZero
        ELSE IF Len(m) <= 53 THEN Strip(m, 0)
        ELSE Strip(IF up THEN BAdd(keep, <<1>>, 1) ELSE keep, Len(m) - 53)

\* The float nearest to (m1 * 2^e1) / (m2 * 2^e2), m2 # 0: the quotient by long
\* division to at least 55 digits, a remainder making it sticky; st is
\* <<remainder, quotient>>
f64_quotient(m1, e1, m2, e2) ==
    LET s == (IF Len(m2) > Len(m1) THEN Len(m2) - Len(m1) ELSE 0) + 55
        N == m1 \o [i \in 1..s |-> 0]
        Down(st, i) == IF st[1] = <<>> /\ N[i] = 0 THEN <<>> ELSE st[1] \o <<N[i]>>
        Digit(r, q) ==
            IF BLt(r, m2) THEN <<r, IF q = <<>> THEN <<>> ELSE q \o <<0>>>>
            ELSE <<BAdd(r, m2, -1), q \o <<1>>>>
        RECURSIVE Div(_, _, _)
        Div(i, hi, st) ==
            IF i > hi \/ Len(st) # 2 THEN st
            ELSE Div(i + 1, hi, Digit(Down(st, i), st[2]))
        RECURSIVE Blocks(_, _)
        Blocks(k, st) ==
            IF k * BLK >= Len(N) THEN st
            ELSE Blocks(k + 1, Div(k * BLK + 1, IF (k + 1) * BLK < Len(N) THEN (k + 1) * BLK ELSE Len(N),
                                   st))
        Out(qr) == f64_round(qr[2], e1 - e2 - s, qr[1] # <<>>)
    IN  IF m1 = <<>> THEN RZero ELSE Out(Blocks(0, <<<<>>, <<>>>>))

\* The digits and the exponent of an operand: a float as it is, an integer
\* exactly, another rational n/d as the float nearest to it
f64_operand(a) ==
    LET RECURSIVE Bits(_)
        Bits(n) == IF n = 0 THEN <<>> ELSE Bits(n \div 2) \o <<n % 2>>
        Of(q) == [m |-> q[2], e |-> q[3]]
    IN  IF Len(a) = 3 THEN Of(a)
        ELSE IF a[2] = 1 THEN [m |-> Bits(a[1]), e |-> 0]
        ELSE Of(f64_quotient(Bits(a[1]), 0, Bits(a[2]), 0))

\* Exact arithmetic on rationals
RAdd(a, b) == Rat(a[1] * b[2] + b[1] * a[2], a[2] * b[2])
RSub(a, b) == Rat(a[1] * b[2] - b[1] * a[2], a[2] * b[2])
RMul(a, b) == Rat(a[1] * b[1], a[2] * b[2])
RDiv(a, b) == Rat(a[1] * b[2], a[2] * b[1])
RLt(a, b)  == a[1] * b[2] < b[1] * a[2]

\* The arithmetic of get_TFIDF_recommendations_single: exact on rationals,
\* rounded once a float with its rounding is involved
NumAdd(a, b) ==
    LET Shl(m, k) == IF m = <<>> THEN <<>> ELSE m \o [i \in 1..k |-> 0]
        Sum(x, y, e) == f64_round(BAdd(Shl(x.m, x.e - e), Shl(y.m, y.e - e), 1), e, FALSE)
        Add(x, y) == Sum(x, y, IF x.e < y.e THEN x.e ELSE y.e)
    IN  IF Len(a) = 3 \/ Len(b) = 3 THEN Add(f64_operand(a), f64_operand(b)) ELSE RAdd(a, b)

\* The product digit by digit of the shorter operand, from its most significant one
NumMul(a, b) ==
    LET Prod(x, y) ==
            LET Term(i) == IF y.m[i] = 1 THEN x.m ELSE <<>>
                RECURSIVE Mul(_, _, _)
                Mul(i, hi, acc) ==
                    IF i > hi THEN acc
                    ELSE IF acc = <<>> THEN Mul(i + 1, hi, Term(i))
                    ELSE Mul(i + 1, hi, BAdd(acc \o <<0>>, Term(i), 1))
                RECURSIVE Blocks(_, _)
                Blocks(k, acc) ==
                    IF k * BLK >= Len(y.m) THEN acc
                    ELSE Blocks(k + 1, Mul(k * BLK + 1,
                                           IF (k + 1) * BLK < Len(y.m) THEN (k + 1) * BLK ELSE Len(y.m),
                                           acc))
            IN  f64_round(Blocks(0, <<>>), x.e + y.e, FALSE)
        Ordered(x, y) == IF Len(x.m) < Len(y.m) THEN Prod(y, x) ELSE Prod(x, y)
    IN  IF Len(a) = 3 \/ Len(b) = 3 THEN Ordered(f64_operand(a), f64_operand(b)) ELSE RMul(a, b)

NumDiv(a, b) ==
    LET Quot(x, y) == f64_quotient(x.m, x.e, y.m, y.e)
    IN  IF Len(a) = 3 \/ Len(b) = 3 THEN Quot(f64_operand(a), f64_operand(b)) ELSE RDiv(a, b)

NumLt(a, b) ==
    LET Shl(m, k) == IF m = <<>> THEN <<>> ELSE m \o [i \in 1..k |-> 0]
        Less(x, y, e) == BLt(Shl(x.m, x.e - e), Shl(y.m, y.e - e))
        Lt(x, y) == Less(x, y, IF x.e < y.e THEN x.e ELSE y.e)
    IN  IF Len(a) = 3 \/ Len(b) = 3 THEN Lt(f64_operand(a), f64_operand(b)) ELSE RLt(a, b)
RLe(a, b)  == a[1] * b[2] <= b[1] * a[2]
RAbs(a)    == <<Abs(a[1]), a[2]>>

None == <<>>

\* IEEE special values of numpy's float64: nan is 0/0, +inf is 1/0, -inf is -1/0.
NaN      == <<0, 0>>
IsNaN(a) == a = NaN
IsInf(a) == a[2] = 0 /\ a[1] # 0
Sgn(a)   == IF a[1] > 0 THEN 1 ELSE IF a[1] < 0 THEN -1 ELSE 0

FMul(a, b) ==
    IF IsNaN(a) \/ IsNaN(b) THEN NaN
    ELSE IF IsInf(a) \/ IsInf(b) THEN <<Sgn(a) * Sgn(b), 0>>
    ELSE RMul(a, b)

FAdd(a, b) ==
    IF IsNaN(a) \/ IsNaN(b) THEN NaN
    ELSE IF IsInf(a) /\ IsInf(b) THEN (IF a = b THEN a ELSE NaN)
    ELSE IF IsInf(a) THEN a
    ELSE IF IsInf(b) THEN b
    ELSE RAdd(a, b)

FDiv(a, b) ==
    IF IsNaN(a) \/ IsNaN(b) THEN NaN
    ELSE IF IsInf(b) THEN (IF IsInf(a) THEN NaN ELSE RZero)
    ELSE IF b[1] = 0 THEN <<Sgn(a), 0>>
    ELSE IF IsInf(a) THEN <<Sgn(a) * Sgn(b), 0>>
    ELSE RDiv(a, b)

\* a < b on floats; any comparison with nan is false
FLt(a, b) ==
    IF IsNaN(a) \/ IsNaN(b) THEN FALSE
    ELSE IF IsInf(a) /\ IsInf(b) THEN a[1] < b[1]
    ELSE a[1] * b[2] < b[1] * a[2]

\* a == b on floats
FEq(a, b) == ~IsNaN(a) /\ ~IsNaN(b) /\ a = b

-----------------------------------------------------------------------------
(* Python values *)

Digits == <<"1", "2", "3", "4", "5", "6", "7", "8", "9", "10", "11", "12", "13">>
str(i) == Digits[i]
int(s) == CHOOSE i \in 1..Len(Digits) : Digits[i] = s

\* The titles of the catalogs used, in Python's string order
Alphabet == <<"A", "B", "C", "D", "E", "F", "G", "H", "I", "J", "K", "L", "M">>

len(d) == Cardinality(DOMAIN d)

Del(d, k)    == [x \in DOMAIN d \ {k} |-> d[x]]
Put_nothing(d, k, v) == d
Put(d, k, v) == [x \in DOMAIN d \cup {k} |-> IF x = k THEN v ELSE d[x]]

\* deepcopy(obj): a fresh object, at the next address, equal to the one copied.
deepcopy(a) == a + 1

\* copy_cosim = deepcopy(cosim_matrix)
copy_cosim_alias(cosim_matrix) == cosim_matrix
copy_cosim(cosim_matrix) == deepcopy(cosim_matrix)

\* newPrefs = deepcopy(prefs)
newPrefs_alias(p) == p
newPrefs_copy(p) == deepcopy(p)

Copied(mem, a, c) == [k \in DOMAIN mem \cup {c} |-> IF k = c THEN mem[a] ELSE mem[k]]

-----------------------------------------------------------------------------
(* Program constants *)

\* SIM_THRESHOLDS = [0, 0.3, 0.5, 0.7]
SIM_THRESHOLDS == <<RZero, Rat(3, 10), Rat(1, 2), Rat(7, 10)>>

\* HYBRID_WEIGHTING = 0.75
HYBRID_WEIGHTING == Rat(3, 4)

-----------------------------------------------------------------------------
(* Similarity functions *)

\* A similarity is a real number that need not be rational.  It is kept in the
\* form the code computes it in:
\*   <<"zero">>                     the literal 0 of an early return
\*   <<"distance", ss, scale>>      scale * 1/(1 + sqrt(ss))
\*   <<"pearson", num, d2, scale>>  scale * num / sqrt(d2)
\* with ss, num, d2 and scale exact rationals.

RECURSIVE SumSet(_, _)
SumSet(S, f) ==
    IF S = {} THEN RZero
    ELSE LET x == CHOOSE y \in S : TRUE IN RAdd(f[x], SumSet(S \ {x}, f))

\* si: the items rated by both p1 and p2
shared_items(p, p1, p2) == {item \in DOMAIN p[p1] : item \in DOMAIN p[p2]}

\* if sim_weighting != 0: if len(si) < sim_weighting: distance_sim *= len(si) / sim_weighting
distance_weighting_always(m, k) == IF k # 0 THEN Rat(m, k) ELSE RInt(1)
distance_weighting(m, k) == IF k # 0 /\ m < k THEN Rat(m, k) ELSE RInt(1)

sim_distance(p, p1, p2, k) ==
    LET si == shared_items(p, p1, p2)
        sum_of_squares ==
            SumSet(si, [item \in si |-> RInt((p[p1][item] - p[p2][item]) * (p[p1][item] - p[p2][item]))])
    IN  IF len([x \in si |-> 1]) = 0 THEN <<"zero">>
        ELSE <<"distance", sum_of_squares, distance_weighting(Cardinality(si), k)>>

\* if sim_weighting != 0: sim_pearson *= len(si) / sim_weighting
pearson_weighting(m, k) == IF k # 0 THEN Rat(m, k) ELSE RInt(1)

sim_pearson(p, p1, p2, k) ==
    LET si    == shared_items(p, p1, p2)
        m     == Cardinality(si)
        x_avg == RDiv(SumSet(si, [item \in si |-> RInt(p[p1][item])]), RInt(m))
        y_avg == RDiv(SumSet(si, [item \in si |-> RInt(p[p2][item])]), RInt(m))
        dx    == [item \in si |-> RSub(RInt(p[p1][item]), x_avg)]
        dy    == [item \in si |-> RSub(RInt(p[p2][item]), y_avg)]
        numerator == SumSet(si, [item \in si |-> RMul(dx[item], dy[item])])
        \* denominator = sqrt(sxx) * sqrt(syy), which is 0 exactly when sxx * syy is
        sxx   == SumSet(si, [item \in si |-> RMul(dx[item], dx[item])])
        syy   == SumSet(si, [item \in si |-> RMul(dy[item], dy[item])])
    IN  IF m = 0 THEN <<"zero">>
        ELSE IF RMul(sxx, syy) # RZero
            THEN <<"pearson", numerator, RMul(sxx, syy), pearson_weighting(m, k)>>
        ELSE <<"zero">>

-----------------------------------------------------------------------------
(* Single-item recommenders *)

\* What a call of a recommender leaves behind: the value returned (or the
\* exception raised) and the memory of cosine matrices after it.
Returned(r, cm)  == [rec |-> r, exc |-> "", cmem |-> cm, fills |-> {}]
Raised(e, cm)    == [rec |-> <<None, "">>, exc |-> e, cmem |-> cm, fills |-> {}]

\* if num > 0 and denom > 0: num/denom; <<>> when no score is produced
predict_unguarded(num, denom) == <<FDiv(num, denom)>>
predict(num, denom) ==
    IF RLt(RZero, num) /\ RLt(RZero, denom) THEN <<RDiv(num, denom)>> ELSE <<>>

\* The loop over j of get_TFIDF_recommendations_single; x is int(movies2[excluded]).
RECURSIVE TFIDF_single_loop(_, _, _, _, _, _, _, _)
TFIDF_single_loop(userRatings, cosim, x, thr, mv, j, num, denom) ==
    IF j > len(mv) THEN <<num, denom>>
    ELSE IF mv[str(j)] \notin DOMAIN userRatings
        THEN TFIDF_single_loop(userRatings, cosim, x, thr, mv, j + 1, num, denom)
    ELSE IF x = j
        THEN TFIDF_single_loop(userRatings, cosim, x, thr, mv, j + 1, num, denom)
    ELSE IF NumLt(cosim[x][j], thr)
        THEN TFIDF_single_loop(userRatings, cosim, x, thr, mv, j + 1, num, denom)
    ELSE TFIDF_single_loop(userRatings, cosim, x, thr, mv, j + 1,
                           NumAdd(num, NumMul(RInt(userRatings[mv[str(j)]]), cosim[x][j])),
                           NumAdd(denom, cosim[x][j]))

get_TFIDF_recommendations_single(p, cm, cosim_matrix, user, thr, mv, movies2, ii_matrix, excluded) ==
    LET userRatings == p[user]
        Prediction(nd) ==
            IF NumLt(RZero, nd[1]) /\ NumLt(RZero, nd[2])
            THEN Returned(<<NumDiv(nd[1], nd[2]), excluded>>, cm)
            ELSE Returned(<<None, excluded>>, cm)
    IN  Prediction(TFIDF_single_loop(userRatings, cm[cosim_matrix], int(movies2[excluded]),
                                     thr, mv, 1, RZero, RZero))

\* if weighted: copy_cosim[i-1][j-1] *= HYBRID_WEIGHTING
weighting_never(v, w) == v
weighting(v, w) == IF w THEN RMul(v, HYBRID_WEIGHTING) ELSE v

\* if copy_cosim[i-1][j-1] < sim_threshold: the neighbour is skipped, before the
\* cell is looked at for a fill-in
below_threshold_unless_zero(v, thr) == v # RZero /\ RLt(v, thr)
below_threshold(v, thr) == RLt(v, thr)

\* if copy_cosim[i-1][j-1] == 0: the cell is to be filled in
is_small_cell(v) == RLt(v, RInt(1))
is_zero_cell(v) == v = RZero

\* The loop over j of get_hybrid_recommendations_single.  st carries num, denom,
\* the memory (copy_cosim lives at address c) and the exception, if one was raised.
RECURSIVE hybrid_single_loop(_, _, _, _, _, _, _, _, _, _)
hybrid_single_loop(userRatings, c, x, thr, mv, ii_matrix, excluded, w, j, st) ==
    IF j > Len(st.cmem[c]) \/ st.exc # "" THEN st
    ELSE IF mv[str(j)] \notin DOMAIN userRatings
        THEN hybrid_single_loop(userRatings, c, x, thr, mv, ii_matrix, excluded, w, j + 1, st)
    ELSE IF x = j
        THEN hybrid_single_loop(userRatings, c, x, thr, mv, ii_matrix, excluded, w, j + 1, st)
    ELSE IF below_threshold(st.cmem[c][x][j], thr)
        THEN hybrid_single_loop(userRatings, c, x, thr, mv, ii_matrix, excluded, w, j + 1, st)
    ELSE IF is_zero_cell(st.cmem[c][x][j])
        THEN IF excluded \notin DOMAIN ii_matrix
                THEN [st EXCEPT !.exc = "KeyError: ii_matrix"]
             ELSE IF mv[str(j)] \notin DOMAIN ii_matrix[excluded]
                THEN hybrid_single_loop(userRatings, c, x, thr, mv, ii_matrix, excluded, w, j + 1, st)
             ELSE IF RLe(ii_matrix[excluded][mv[str(j)]], RZero)
                THEN hybrid_single_loop(userRatings, c, x, thr, mv, ii_matrix, excluded, w, j + 1, st)
             ELSE LET v  == ii_matrix[excluded][mv[str(j)]]
                      v2 == weighting(v, w)
                  IN  hybrid_single_loop(userRatings, c, x, thr, mv, ii_matrix, excluded, w, j + 1,
                          [num   |-> RAdd(st.num, RMul(RInt(userRatings[mv[str(j)]]), v2)),
                           denom |-> RAdd(st.denom, v2),
                           cmem  |-> [st.cmem EXCEPT ![c][x][j] = v2],
                           exc   |-> "",
                           fills |-> st.fills \cup {[i |-> x, j |-> j, s |-> v, used |-> v2]}])
    ELSE hybrid_single_loop(userRatings, c, x, thr, mv, ii_matrix, excluded, w, j + 1,
            [st EXCEPT !.num   = RAdd(st.num, RMul(RInt(userRatings[mv[str(j)]]), st.cmem[c][x][j])),
                       !.denom = RAdd(st.denom, st.cmem[c][x][j])])

\* The objects that outlive a call: the locals of the call are dropped.
Outlive(cm, before) == [a \in DOMAIN before |-> cm[a]]

get_hybrid_recommendations_single(p, cm, cosim_matrix, user, thr, mv, movies2, ii_matrix, excluded, w) ==
    LET userRatings == p[user]
        c  == copy_cosim(cosim_matrix)
        st == hybrid_single_loop(userRatings, c, int(movies2[excluded]), thr, mv,
                                 ii_matrix, excluded, w, 1,
                                 [num |-> RZero, denom |-> RZero,
                                  cmem |-> Copied(cm, cosim_matrix, c), exc |-> "",
                                  fills |-> {}])
    IN  IF st.exc # "" THEN [Raised(st.exc, Outlive(st.cmem, cm)) EXCEPT !.fills = st.fills]
        ELSE IF predict(st.num, st.denom) # <<>>
        THEN [Returned(<<predict(st.num, st.denom)[1], excluded>>, Outlive(st.cmem, cm))
                 EXCEPT !.fills = st.fills]
        ELSE [Returned(<<None, excluded>>, Outlive(st.cmem, cm)) EXCEPT !.fills = st.fills]

\* def get_hybrid_recommendations_single(..., excluded, weighted=True)
hybrid_single_default_weighted == TRUE

-----------------------------------------------------------------------------
(* sorted(recs, reverse=True) and recs[:n] *)

IndexOf(seq, x) == CHOOSE k \in 1..Len(seq) : seq[k] = x

\* Python's order on the titles of the catalogs used here (single capital letters)
StrLt(a, b) == IndexOf(Alphabet, a) < IndexOf(Alphabet, b)

\* Python's order on (score, title) tuples
TupleLt(a, b) == FLt(a[1], b[1]) \/ (a[1] = b[1] /\ StrLt(a[2], b[2]))

Without(seq, k) == [m \in 1..(Len(seq) - 1) |-> IF m < k THEN seq[m] ELSE seq[m + 1]]

\* sorted(seq, reverse=True): the first greatest element, then the rest sorted
RECURSIVE sorted_reverse(_)
sorted_reverse(seq) ==
    IF seq = <<>> THEN <<>>
    ELSE LET k == CHOOSE m \in 1..Len(seq) :
                      /\ \A q \in 1..Len(seq) : ~TupleLt(seq[m], seq[q])
                      /\ \A q \in 1..(m - 1) : TupleLt(seq[q], seq[m])
         IN  <<seq[k]>> \o sorted_reverse(Without(seq, k))

\* seq[:n] for n >= 0
Slice(seq, n) == SubSeq(seq, 1, IF n < Len(seq) THEN n ELSE Len(seq))

-----------------------------------------------------------------------------
(* Full-catalog recommenders *)

ListReturned(r, pr, cm, fl) == [ret |-> r, printed |-> pr, exc |-> "", cmem |-> cm, fills |-> fl]
ListRaised(e, cm, fl)       == [ret |-> <<>>, printed |-> <<>>, exc |-> e, cmem |-> cm, fills |-> fl]

\* The inner loop over j of get_TFIDF_recommendations, for item i
RECURSIVE TFIDF_inner(_, _, _, _, _, _, _, _)
TFIDF_inner(userRatings, cosim, i, thr, mv, j, num, denom) ==
    IF j > len(mv) THEN <<num, denom>>
    ELSE IF mv[str(j)] \notin DOMAIN userRatings
        THEN TFIDF_inner(userRatings, cosim, i, thr, mv, j + 1, num, denom)
    ELSE IF i = j
        THEN TFIDF_inner(userRatings, cosim, i, thr, mv, j + 1, num, denom)
    ELSE IF RLt(cosim[i][j], thr)
        THEN TFIDF_inner(userRatings, cosim, i, thr, mv, j + 1, num, denom)
    ELSE TFIDF_inner(userRatings, cosim, i, thr, mv, j + 1,
                     RAdd(num, RMul(RInt(userRatings[mv[str(j)]]), cosim[i][j])),
                     RAdd(denom, cosim[i][j]))

\* The outer loop over i of get_TFIDF_recommendations
RECURSIVE TFIDF_outer(_, _, _, _, _, _)
TFIDF_outer(userRatings, cosim, thr, mv, i, recs) ==
    IF i > len(mv) THEN recs
    ELSE IF mv[str(i)] \in DOMAIN userRatings
        THEN TFIDF_outer(userRatings, cosim, thr, mv, i + 1, recs)
    ELSE LET nd == TFIDF_inner(userRatings, cosim, i, thr, mv, 1, RZero, RZero)
         IN  TFIDF_outer(userRatings, cosim, thr, mv, i + 1,
                 IF predict(nd[1], nd[2]) # <<>>
                     THEN Append(recs, <<predict(nd[1], nd[2])[1], mv[str(i)]>>)
                     ELSE recs)

\* return recs, after print(sorted(recs, reverse=True)[:n])
TFIDF_return(recs, n) == recs

get_TFIDF_recommendations(p, cm, cosim_matrix, user, thr, mv, n) ==
    IF user \notin DOMAIN p THEN ListRaised("KeyError: prefs", cm, {})
    ELSE LET recs == TFIDF_outer(p[user], cm[cosim_matrix], thr, mv, 1, <<>>)
         IN  ListReturned(TFIDF_return(recs, n), Slice(sorted_reverse(recs), n), cm, {})

\* The inner loop over j of get_hybrid_recommendations, for item i
RECURSIVE hybrid_inner(_, _, _, _, _, _, _, _, _)
hybrid_inner(userRatings, c, i, thr, mv, ii_matrix, w, j, st) ==
    IF j > Len(st.cmem[c]) \/ st.exc # "" THEN st
    ELSE IF mv[str(j)] \notin DOMAIN userRatings
        THEN hybrid_inner(userRatings, c, i, thr, mv, ii_matrix, w, j + 1, st)
    ELSE IF i = j
        THEN hybrid_inner(userRatings, c, i, thr, mv, ii_matrix, w, j + 1, st)
    ELSE IF below_threshold(st.cmem[c][i][j], thr)
        THEN hybrid_inner(userRatings, c, i, thr, mv, ii_matrix, w, j + 1, st)
    ELSE IF is_zero_cell(st.cmem[c][i][j])
        THEN IF mv[str(i)] \notin DOMAIN ii_matrix
                THEN [st EXCEPT !.exc = "KeyError: ii_matrix"]
             ELSE IF mv[str(j)] \notin DOMAIN ii_matrix[mv[str(i)]]
                THEN hybrid_inner(userRatings, c, i, thr, mv, ii_matrix, w, j + 1, st)
             ELSE IF RLe(ii_matrix[mv[str(i)]][mv[str(j)]], RZero)
                THEN hybrid_inner(userRatings, c, i, thr, mv, ii_matrix, w, j + 1, st)
             ELSE LET v  == ii_matrix[mv[str(i)]][mv[str(j)]]
                      v2 == weighting(v, w)
                  IN  hybrid_inner(userRatings, c, i, thr, mv, ii_matrix, w, j + 1,
                          [num   |-> RAdd(st.num, RMul(RInt(userRatings[mv[str(j)]]), v2)),
                           denom |-> RAdd(st.denom, v2),
                           cmem  |-> [st.cmem EXCEPT ![c][i][j] = v2],
                           exc   |-> "",
                           fills |-> st.fills \cup {[i |-> i, j |-> j, s |-> v, used |-> v2]}])
    ELSE hybrid_inner(userRatings, c, i, thr, mv, ii_matrix, w, j + 1,
            [st EXCEPT !.num   = RAdd(st.num, RMul(RInt(userRatings[mv[str(j)]]), st.cmem[c][i][j])),
                       !.denom = RAdd(st.denom, st.cmem[c][i][j])])

\* The outer loop over i of get_hybrid_recommendations; o carries recs, the
\* memory, the fill-ins made and the exception, if one was raised.
RECURSIVE hybrid_outer(_, _, _, _, _, _, _, _)
hybrid_outer(userRatings, c, thr, mv, ii_matrix, w, i, o) ==
    IF i > Len(o.cmem[c]) \/ o.exc # "" THEN o
    ELSE IF mv[str(i)] \in DOMAIN userRatings
        THEN hybrid_outer(userRatings, c, thr, mv, ii_matrix, w, i + 1, o)
    ELSE LET st == hybrid_inner(userRatings, c, i, thr, mv, ii_matrix, w, 1,
                       [num |-> RZero, denom |-> RZero, cmem |-> o.cmem, exc |-> "",
                        fills |-> o.fills])
         IN  hybrid_outer(userRatings, c, thr, mv, ii_matrix, w, i + 1,
                 [recs  |-> IF st.exc = "" /\ predict(st.num, st.denom) # <<>>
                               THEN Append(o.recs, <<predict(st.num, st.denom)[1], mv[str(i)]>>)
                               ELSE o.recs,
                  cmem  |-> st.cmem,
                  fills |-> st.fills,
                  exc   |-> st.exc])

\* return recs, after print(sorted(recs, reverse=True)[:n])
hybrid_return(recs, n) == recs

get_hybrid_recommendations(p, cm, cosim_matrix, user, thr, mv, ii_matrix, w, n) ==
    IF user \notin DOMAIN p THEN ListRaised("KeyError: prefs", cm, {})
    ELSE LET c == copy_cosim(cosim_matrix)
             o == hybrid_outer(p[user], c, thr, mv, ii_matrix, w, 1,
                      [recs |-> <<>>, cmem |-> Copied(cm, cosim_matrix, c), fills |-> {},
                       exc |-> ""])
         IN  IF o.exc # "" THEN ListRaised(o.exc, Outlive(o.cmem, cm), o.fills)
             ELSE ListReturned(hybrid_return(o.recs, n), Slice(sorted_reverse(o.recs), n),
                               Outlive(o.cmem, cm), o.fills)

-----------------------------------------------------------------------------
(* Feature encoding *)

RECURSIVE FSum(_)
FSum(s) == IF s = <<>> THEN RZero ELSE FAdd(Head(s), FSum(Tail(s)))

\* np.nansum: the sum with every nan taken as 0
nansum(s) == FSum([k \in 1..Len(s) |-> IF IsNaN(s[k]) THEN RZero ELSE s[k]])

RECURSIVE CountTrue(_)
CountTrue(s) == IF s = <<>> THEN 0 ELSE (IF Head(s) THEN 1 ELSE 0) + CountTrue(Tail(s))

Width(ft) == IF ft = <<>> THEN 0 ELSE Len(ft[1])

\* feature_preference: the rated rows scaled by their rating, the others zeroed.
\* Row r (1-based) is the item with id r; the code's 0-based index is r - 1.
feature_preference(ft, userRatings, title2id) ==
    [r \in 1..Len(ft) |->
        [f \in 1..Width(ft) |->
            IF \E m \in DOMAIN userRatings : int(title2id[m]) = r
                THEN LET m == CHOOSE x \in DOMAIN userRatings : int(title2id[x]) = r
                     IN  RInt(ft[r][f] * userRatings[m])
                ELSE RZero]]

rated_ids(userRatings, title2id) == {int(title2id[m]) : m \in DOMAIN userRatings}

col_sums(fp, w)      == [f \in 1..w |-> FSum([r \in 1..Len(fp) |-> fp[r][f]])]
overall_sum(fp, w)   == FSum(col_sums(fp, w))
norm_vector(fp, w)   == [f \in 1..w |-> FDiv(col_sums(fp, w)[f], overall_sum(fp, w))]
nonzero_count_as_sum(fp, w) == [f \in 1..w |-> col_sums(fp, w)[f][1]]
nonzero_count(fp, w) == [f \in 1..w |-> CountTrue([r \in 1..Len(fp) |-> fp[r][f] # RZero])]

\* The body of the loop over unrated ids, for item id: <<>> when the item is
\* skipped (norm_sum == 0), else <<final_rec>>.
FE_item(ft, fp, id) ==
    LET w            == Width(ft)
        norm_weight  == [f \in 1..w |-> FMul(RInt(ft[id][f]), norm_vector(fp, w)[f])]
        norm_sum     == FSum(norm_weight)
        norm_weight2 == [f \in 1..w |-> FDiv(norm_weight[f], norm_sum)]
        avgs         == [f \in 1..w |-> FDiv(col_sums(fp, w)[f], RInt(nonzero_count(fp, w)[f]))]
        avgs2        == [f \in 1..w |-> FMul(avgs[f], RInt(ft[id][f]))]
        weight_avg   == [f \in 1..w |-> FMul(avgs2[f], norm_weight2[f])]
    IN  IF FEq(norm_sum, RZero) THEN <<>> ELSE <<nansum(weight_avg)>>

get_FE_recommendations_single(p, ft, cm, user, thr, mv, movies2, ii_matrix, excluded) ==
    LET fp == feature_preference(ft, p[user], movies2)
        r  == FE_item(ft, fp, int(movies2[excluded]))
    IN  IF r = <<>> THEN Returned(<<None, excluded>>, cm)
        ELSE Returned(<<r[1], excluded>>, cm)

\* if len(recs) > 10: recs = recs[:n]
FE_cap(recs, n) == IF Len(recs) > 10 THEN Slice(recs, n) ELSE recs

\* The loop over unrated_ids, a set of small ints, which iterates in ascending
\* order: score the item, append, sort high to low, cap
RECURSIVE FE_loop(_, _, _, _, _, _, _)
FE_loop(ft, fp, rated, mv, id, n, recs) ==
    IF id > Len(ft) THEN recs
    ELSE IF id \in rated THEN FE_loop(ft, fp, rated, mv, id + 1, n, recs)
    ELSE LET r == FE_item(ft, fp, id)
         IN  IF r = <<>> THEN FE_loop(ft, fp, rated, mv, id + 1, n, recs)
             ELSE FE_loop(ft, fp, rated, mv, id + 1, n,
                          FE_cap(sorted_reverse(Append(recs, <<r[1], mv[str(id)]>>)), n))

get_FE_recommendations(p, ft, title2id, mv, user, n) ==
    IF user \notin DOMAIN p THEN ListRaised("KeyError: prefs", <<>>, {})
    ELSE LET fp == feature_preference(ft, p[user], title2id)
         IN  ListReturned(FE_loop(ft, fp, rated_ids(p[user], title2id), mv, 1, n, <<>>),
                          <<>>, <<>>, {})

-----------------------------------------------------------------------------
(* loo_cv_sim *)

AlgoNames == {"get_TFIDF_recommendations_single", "get_hybrid_recommendations_single",
              "get_FE_recommendations_single"}

\* algo(newPrefs, sim_matrix, i, sim_threshold, movies, newMovies, itemsim, out[, weighted=weighted])
\* kw is TRUE when the keyword argument weighted is passed, and w is its value.  The
\* driver hands the cosine matrix (address sm) to the TF-IDF and hybrid recommenders
\* and the feature matrix ft to the feature-encoding one.
CallAlgo(a, p, cm, sm, ft, i, thr, mv, mv2, ii, out, kw, w) ==
    IF a = "get_hybrid_recommendations_single"
        THEN get_hybrid_recommendations_single(p, cm, sm, i, thr, mv, mv2, ii, out,
                 IF kw THEN w ELSE hybrid_single_default_weighted)
    ELSE IF kw THEN Raised("TypeError", cm)
    ELSE IF a = "get_FE_recommendations_single"
        THEN get_FE_recommendations_single(p, ft, cm, i, thr, mv, mv2, ii, out)
    ELSE get_TFIDF_recommendations_single(p, cm, sm, i, thr, mv, mv2, ii, out)

\* A sequence without the later occurrences of its elements
RECURSIVE FirstSeen(_, _)
FirstSeen(seq, seen) ==
    IF seq = <<>> THEN <<>>
    ELSE IF Head(seq) \in seen THEN FirstSeen(Tail(seq), seen)
    ELSE <<Head(seq)>> \o FirstSeen(Tail(seq), seen \cup {Head(seq)})

\* Iteration order of a dictionary's keys: the order of `order`, each key once.
KeyList_twice(d, order) == SelectSeq(order \o order, LAMBDA k : k \in DOMAIN d)
KeyList(d, order) == FirstSeen(SelectSeq(order, LAMBDA k : k \in DOMAIN d), {})

\* newMovies = {v: k for k, v in movies.items()}: a later id replaces an earlier
\* one under the same title
invert_movies(mv) ==
    [t \in {mv[k] : k \in DOMAIN mv} |->
        CHOOSE k \in DOMAIN mv : mv[k] = t /\ \A k2 \in DOMAIN mv : mv[k2] = t => int(k2) <= int(k)]

UserOrder == <<"u1", "u2">>
TitleOrder(mv) == [k \in 1..len(mv) |-> mv[str(k)]]

\* mean_squared_error / mean_absolute_error of sklearn
RECURSIVE SumSeq(_)
SumSeq(s) == IF s = <<>> THEN RZero ELSE RAdd(Head(s), SumSeq(Tail(s)))

mean_squared_error(t, q) ==
    RDiv(SumSeq([k \in 1..Len(t) |-> RMul(RSub(t[k], q[k]), RSub(t[k], q[k]))]), RInt(Len(t)))
mean_absolute_error(t, q) ==
    RDiv(SumSeq([k \in 1..Len(t) |-> RAbs(RSub(t[k], q[k]))]), RInt(Len(t)))

\* The denominator of "Coverage PCT"
COVERAGE_DENOM == 100000

i_   == userKeys[ui]
out_ == outKeys[oi]

\* The next user, after index k, with a rating to leave out (0: none).
RECURSIVE NextUser(_, _, _)
NextUser(p, uk, k) ==
    IF k >= Len(uk) THEN 0
    ELSE IF DOMAIN p[uk[k + 1]] # {} THEN k + 1
    ELSE NextUser(p, uk, k + 1)

\* Where the loops go after the inner-loop body for (ui, oi) has run.
NextTrial(p) ==
    IF oi < Len(outKeys)
        THEN /\ oi' = oi + 1
             /\ pc' = "remove"
             /\ UNCHANGED <<ui, outKeys>>
    ELSE LET k == NextUser(p, userKeys, ui)
         IN  IF k = 0
                THEN /\ pc' = "report"
                     /\ UNCHANGED <<ui, oi, outKeys>>
                ELSE /\ ui' = k
                     /\ outKeys' = KeyList(p[userKeys[k]], TitleOrder(movies))
                     /\ oi' = 1
                     /\ pc' = "remove"

\* lines 964-975: the lists, the deep copy, the inverted catalog, the first user
LooBegin ==
    /\ pc = "loo_cv_sim"
    /\ LET np == newPrefs_copy(prefs)
           uk == KeyList(pmem[prefs], UserOrder)
       IN  /\ newPrefs' = np
           /\ pmem' = Copied(pmem, prefs, np)
           /\ newMovies' = invert_movies(movies)
           /\ userKeys' = uk
           /\ ui' = NextUser(pmem[prefs], uk, 0)
           /\ oi' = 1
           /\ outKeys' = IF NextUser(pmem[prefs], uk, 0) = 0 THEN <<>>
                         ELSE KeyList(pmem[prefs][uk[NextUser(pmem[prefs], uk, 0)]], TitleOrder(movies))
           /\ pc' = IF NextUser(pmem[prefs], uk, 0) = 0 THEN "report" ELSE "remove"
    /\ true_list' = <<>>
    /\ pred_list' = <<>>
    /\ error_list' = <<>>
    /\ UNCHANGED <<cmem, exc, inVars, save, rec, fills, ws, callVars>>

\* lines 982-984: save = newPrefs[i][out]; del newPrefs[i][out]
LooRemove ==
    /\ pc = "remove"
    /\ save' = pmem[newPrefs][i_][out_]
    /\ pmem' = [pmem EXCEPT ![newPrefs][i_] = Del(@, out_)]
    /\ pc' = "call"
    /\ UNCHANGED <<cmem, exc, inVars, newPrefs, newMovies, userKeys, ui, outKeys, oi, rec, fills,
                   error_list, true_list, pred_list, ws, callVars>>

\* lines 986-992: the call of algo; an exception leaves loo_cv_sim
LooCall ==
    /\ pc = "call"
    /\ LET r == CallAlgo(algo, pmem[newPrefs], cmem, sim_matrix, features, i_, sim_threshold,
                         movies, newMovies, itemsim, out_, weighted, weighted)
       IN  /\ cmem' = r.cmem
           /\ fills' = r.fills
           /\ IF r.exc # ""
                 THEN /\ exc' = r.exc
                      /\ pc' = "raised"
                      /\ UNCHANGED rec
                 ELSE /\ rec' = r.rec
                      /\ pc' = "restore"
                      /\ UNCHANGED exc
    /\ UNCHANGED <<pmem, inVars, newPrefs, newMovies, userKeys, ui, outKeys, oi, save,
                   error_list, true_list, pred_list, ws, callVars>>

\* line 993: newPrefs[i][out] = save
LooRestore ==
    /\ pc = "restore"
    /\ pmem' = [pmem EXCEPT ![newPrefs][i_] = Put(@, out_, save)]
    /\ pc' = "record"
    /\ UNCHANGED <<cmem, exc, inVars, newPrefs, newMovies, userKeys, ui, outKeys, oi, save, rec,
                   fills, error_list, true_list, pred_list, ws, callVars>>

\* line 995: if rec[1] == out and rec[0] != None and rec[0] != 0
usable_not_None(r, out) == r[2] = out /\ r[1] # None
usable(r, out) == r[2] = out /\ r[1] # None /\ r[1] # RZero

\* lines 995-1003: record the squared error of a usable prediction
LooRecord ==
    /\ pc = "record"
    /\ IF usable(rec, out_)
          THEN LET truth == RInt(pmem[prefs][i_][rec[2]])
                   d     == RSub(truth, rec[1])
               IN  /\ error_list' = Append(error_list, RMul(d, d))
                   /\ true_list' = Append(true_list, truth)
                   /\ pred_list' = Append(pred_list, rec[1])
          ELSE UNCHANGED <<error_list, true_list, pred_list>>
    /\ NextTrial(pmem[prefs])
    /\ UNCHANGED <<pmem, cmem, exc, inVars, newPrefs, newMovies, userKeys, save, rec, fills, ws,
                   callVars>>

\* lines 1009-1027: the metrics and the worksheet row; sklearn's metrics raise
\* ValueError on empty lists
LooReport ==
    /\ pc = "report"
    /\ IF true_list = <<>>
          THEN /\ exc' = "ValueError"
               /\ pc' = "raised"
               /\ UNCHANGED ws
          ELSE /\ ws' = [A |-> algo, B |-> "", C |-> sim_threshold, D |-> weighted,
                         E |-> mean_squared_error(true_list, pred_list),
                         F |-> <<"sqrt", mean_squared_error(true_list, pred_list)>>,
                         G |-> mean_absolute_error(true_list, pred_list),
                         H |-> Rat(Len(error_list), COVERAGE_DENOM)]
               /\ pc' = "done"
               /\ UNCHANGED exc
    /\ UNCHANGED <<pmem, cmem, inVars, newPrefs, newMovies, userKeys, ui, outKeys, oi, save, rec,
                   fills, error_list, true_list, pred_list, callVars>>

-----------------------------------------------------------------------------
(* transformPrefs and topMatches *)

\* The keys of a dictionary are iterated in insertion order.  The rating matrix
\* is inserted user by user (UserOrder) and, for a user, title by title
\* (TitleOrder); KeyList gives those orders.
RECURSIVE ItemsInOrder(_, _, _)
ItemsInOrder(p, users, titles) ==
    IF users = <<>> THEN <<>>
    ELSE KeyList(p[Head(users)], titles) \o ItemsInOrder(p, Tail(users), titles)

\* transformPrefs(prefs): the transposed matrix
\* (result.setdefault(item, {}); result[item][person] = prefs[person][item])
transformPrefs_no_setdefault(p) ==
    [item \in UNION {DOMAIN p[person] : person \in DOMAIN p} |->
        [person \in {CHOOSE u \in DOMAIN p : item \in DOMAIN p[u]} |-> p[person][item]]]
transformPrefs(p) ==
    [item \in UNION {DOMAIN p[person] : person \in DOMAIN p} |->
        [person \in {u \in DOMAIN p : item \in DOMAIN p[u]} |-> p[person][item]]]

\* The insertion order of the keys of transformPrefs(prefs): an item is inserted
\* when the first user who rated it is reached
transformPrefs_keys(p, users, titles) ==
    FirstSeen(ItemsInOrder(p, KeyList(p, users), titles), {})

\* The sign of a similarity
SimSign(a) ==
    IF a[1] = "zero" THEN 0
    ELSE IF a[1] = "distance" THEN Sgn(a[3])
    ELSE Sgn(RMul(a[4], a[2]))

\* a < b for a = A/(1 + sqrt(x)) and b = B/(1 + sqrt(y)), A, B > 0: that is
\* A - B < B*sqrt(x) - A*sqrt(y), decided on the signs and the squares
DistanceLt(a, b) ==
    LET A  == a[3]
        B  == b[3]
        x  == a[2]
        y  == b[2]
        L  == RSub(A, B)
        Bx == RMul(RMul(B, B), x)
        Ay == RMul(RMul(A, A), y)
        T  == RSub(RAdd(Bx, Ay), RMul(L, L))
        W  == RMul(RInt(4), RMul(Bx, Ay))
    IN  IF RLt(L, RZero)
           THEN ~RLt(Bx, Ay) \/ RLt(T, RZero) \/ RLt(RMul(T, T), W)
           ELSE RLt(Ay, Bx) /\ RLt(RZero, T) /\ RLt(W, RMul(T, T))

\* a < b for a = P/sqrt(c) and b = Q/sqrt(d): that is P*sqrt(d) < Q*sqrt(c)
PearsonLt(a, b) ==
    LET P  == RMul(a[4], a[2])
        Q  == RMul(b[4], b[2])
        Pd == RMul(RMul(P, P), b[3])
        Qc == RMul(RMul(Q, Q), a[3])
    IN  IF Sgn(P) # Sgn(Q) THEN Sgn(P) < Sgn(Q)
        ELSE IF Sgn(P) > 0 THEN RLt(Pd, Qc)
        ELSE IF Sgn(P) < 0 THEN RLt(Qc, Pd)
        ELSE FALSE

\* a < b on the similarities one similarity function returns
SimLt(a, b) ==
    IF a[1] = "zero" \/ b[1] = "zero" \/ SimSign(a) # SimSign(b) \/ SimSign(a) = 0
        THEN SimSign(a) < SimSign(b)
    ELSE IF a[1] = "distance" THEN DistanceLt(a, b)
    ELSE PearsonLt(a, b)

\* Python's order on (score, other) tuples: the scores first, the names on a tie
ScoreTupleLt(a, b) ==
    \/ SimLt(a[1], b[1])
    \/ ~SimLt(a[1], b[1]) /\ ~SimLt(b[1], a[1]) /\ StrLt(a[2], b[2])

\* scores = sorted(scores, reverse=True)
unsorted_scores(seq) == seq
RECURSIVE sorted_scores(_)
sorted_scores(seq) ==
    IF seq = <<>> THEN <<>>
    ELSE LET k == CHOOSE m \in 1..Len(seq) : \A q \in 1..Len(seq) : ~ScoreTupleLt(seq[m], seq[q])
         IN  <<seq[k]>> \o sorted_scores(Without(seq, k))

similarity(fn, p, p1, p2, k) ==
    IF fn = "sim_distance" THEN sim_distance(p, p1, p2, k) ELSE sim_pearson(p, p1, p2, k)

\* topMatches(prefs, person, n, similarity, sim_weighting, sim_threshold); keys
\* is the iteration order of prefs.  The dictionary returned is given by its
\* items <<score, other>> in insertion order.
topMatches(p, keys, person, n, fn, k, thr) ==
    LET others == SelectSeq(keys, LAMBDA other : other # person)
        scores == [q \in 1..Len(others) |-> <<similarity(fn, p, person, others[q], k), others[q]>>]
    IN  Slice(sorted_scores(scores), n)

-----------------------------------------------------------------------------
(* Inputs *)

Users    == {"u1", "u2"}
Ratings  == {1, 2}
MaxLines == 3

\* The catalog of N items: ids "1".."N", titles "A", "B", ...
Catalog(N) == [k \in {str(i) : i \in 1..N} |-> Alphabet[int(k)]]
Catalog3 == Catalog(3)
Catalog4 == Catalog(4)

Titles(mv) == {mv[k] : k \in DOMAIN mv}

\* The rating matrix read from a data file: a user appears once it has a rating.
ToPrefs(g) ==
    [u \in {v \in DOMAIN g : \E t \in DOMAIN g[v] : g[v][t] # 0} |->
        [t \in {x \in DOMAIN g[u] : g[u][x] # 0} |-> g[u][t]]]

RECURSIVE NumRatingsOf(_, _)
NumRatingsOf(p, S) ==
    IF S = {} THEN 0
    ELSE LET u == CHOOSE v \in S : TRUE IN len(p[u]) + NumRatingsOf(p, S \ {u})

NumRatings(p) == NumRatingsOf(p, DOMAIN p)

PrefsInputs(mv, maxLines) ==
    {p \in {ToPrefs(g) : g \in [Users -> [Titles(mv) -> Ratings \cup {0}]]} : NumRatings(p) <= maxLines}

\* Cosine matrices over N items: symmetric, 1 on the diagonal, a between items
\* whose ids differ in parity and b between the others
CosVals == {RZero, Rat(1, 2)}
Cosim(N, a, b) ==
    [i \in 1..N |-> [j \in 1..N |-> IF i = j THEN RInt(1) ELSE IF (i + j) % 2 = 1 THEN a ELSE b]]
CosimInputs(N) == {Cosim(N, a, b) : a \in CosVals, b \in CosVals}

\* Item-item matrices: no row for "A"; entries missing or not positive
ItemsimNoRow == [t \in {"B", "C", "D"} |-> [x \in {"A", "B", "C", "D"} \ {t} |-> Rat(4, 5)]]
ItemsimGaps  == ("A" :> ("B" :> Rat(4, 5) @@ "C" :> Rat(-1, 2)) @@
                 "B" :> ("A" :> RZero) @@
                 "C" :> ("A" :> Rat(2, 5)) @@
                 "D" :> ("A" :> Rat(4, 5) @@ "B" :> Rat(2, 5)))
ItemsimInputs == {ItemsimNoRow, ItemsimGaps}

\* Feature matrices over three items and two genres
FeatureInputs == { << <<1, 0>>, <<0, 1>>, <<1, 1>> >>,
                   << <<1, 0>>, <<1, 0>>, <<0, 1>> >>,
                   << <<0, 0>>, <<1, 1>>, <<1, 0>> >>,
                   << <<0, 0>>, <<0, 0>>, <<0, 1>> >> }

Thresholds == {SIM_THRESHOLDS[1], SIM_THRESHOLDS[3], SIM_THRESHOLDS[4]}

-----------------------------------------------------------------------------
(* The specification of loo_cv_sim *)

NoRec == <<None, "">>
NoRow == [A |-> "", B |-> "", C |-> RZero, D |-> FALSE, E |-> RZero,
          F |-> <<"sqrt", RZero>>, G |-> RZero, H |-> RZero]

InitLocals ==
    /\ newPrefs = 0
    /\ userKeys = <<>>
    /\ ui = 0
    /\ outKeys = <<>>
    /\ oi = 0
    /\ save = 0
    /\ rec = NoRec
    /\ fills = {}
    /\ error_list = <<>>
    /\ true_list = <<>>
    /\ pred_list = <<>>
    /\ ws = NoRow
    /\ exc = ""

NoCall == [fn |-> ""]

InitCall ==
    /\ call = NoCall
    /\ ret = <<>>
    /\ printed = <<>>

InitLoo ==
    /\ pc = "loo_cv_sim"
    /\ movies = Catalog3
    /\ prefs = 1
    /\ prefs0 \in PrefsInputs(Catalog3, MaxLines)
    /\ pmem = (1 :> prefs0)
    /\ sim_matrix = 1
    /\ algo \in AlgoNames
    /\ cosim0 \in IF algo = "get_FE_recommendations_single" THEN {Cosim(3, RZero, RZero)}
                  ELSE CosimInputs(3)
    /\ cmem = (1 :> cosim0)
    /\ itemsim \in IF algo = "get_hybrid_recommendations_single" THEN ItemsimInputs ELSE {ItemsimGaps}
    /\ features \in IF algo = "get_FE_recommendations_single" THEN FeatureInputs
                    ELSE {CHOOSE f \in FeatureInputs : TRUE}
    /\ sim_threshold \in IF algo = "get_FE_recommendations_single" THEN {SIM_THRESHOLDS[1]}
                         ELSE Thresholds
    /\ weighted \in IF algo = "get_hybrid_recommendations_single" THEN BOOLEAN ELSE {FALSE}
    /\ InitLocals
    /\ newMovies = <<>>
    /\ InitCall

NextLoo == LooBegin \/ LooRemove \/ LooCall \/ LooRestore \/ LooRecord \/ LooReport

SpecLoo == InitLoo /\ [][NextLoo]_vars

-----------------------------------------------------------------------------
(* Claims about loo_cv_sim *)

Left == pc \in {"done", "raised"}

\* C1: when loo_cv_sim returns or raises, the rating matrix it was given holds
\* exactly the (user, item, rating) entries it held when the call began.
C1_PrefsUnchanged == Left => pmem[prefs] = prefs0

\* C1 witness: the call was left by an exception in the middle of a trial, the
\* working copy lacking the held-out entry.
C1_Witness == pc = "raised" /\ exc = "KeyError: ii_matrix" /\ pmem[newPrefs] # prefs0

\* C2: outside the window between the removal and the restoration of a trial, the
\* working copy holds every rating, the held-out one included -- also when the
\* scoring algorithm raised.
C2_RestoredOnEveryExit == (newPrefs # 0 /\ pc \notin {"call", "restore"}) => pmem[newPrefs] = prefs0

\* C3: in a hybrid run the value substituted for a zero cosine cell is multiplied
\* by HYBRID_WEIGHTING exactly when the run's weighted flag is true.
C3_WeightingAsRecorded ==
    (algo = "get_hybrid_recommendations_single" /\ pc = "restore") =>
        \A f \in fills : f.used = IF weighted THEN RMul(f.s, HYBRID_WEIGHTING) ELSE f.s

-----------------------------------------------------------------------------
(* The recommenders called from the driver *)

MaxN == 2

Idle == pc = "idle"

AfterCall(c, r) ==
    /\ call' = c
    /\ exc' = r.exc
    /\ cmem' = r.cmem
    /\ fills' = r.fills
    /\ pc' = IF r.exc # "" THEN "raised" ELSE "returned"

CallTFIDF(user, thr, n) ==
    /\ Idle
    /\ LET r == get_TFIDF_recommendations(pmem[prefs], cmem, sim_matrix, user, thr, movies, n)
       IN  /\ AfterCall([fn |-> "get_TFIDF_recommendations", user |-> user, thr |-> thr,
                         weighted |-> FALSE, n |-> n, excluded |-> ""], r)
           /\ ret' = r.ret
           /\ printed' = r.printed
    /\ UNCHANGED <<pmem, inVars, newPrefs, newMovies, userKeys, ui, outKeys, oi, save, rec,
                   error_list, true_list, pred_list, ws>>

CallHybrid(user, thr, w, n) ==
    /\ Idle
    /\ LET r == get_hybrid_recommendations(pmem[prefs], cmem, sim_matrix, user, thr, movies,
                                           itemsim, w, n)
       IN  /\ AfterCall([fn |-> "get_hybrid_recommendations", user |-> user, thr |-> thr,
                         weighted |-> w, n |-> n, excluded |-> ""], r)
           /\ ret' = r.ret
           /\ printed' = r.printed
    /\ UNCHANGED <<pmem, inVars, newPrefs, newMovies, userKeys, ui, outKeys, oi, save, rec,
                   error_list, true_list, pred_list, ws>>

\* The single-item recommenders, called as loo_cv_sim calls them: for a user of
\* prefs and an item left out of that user's ratings
CallHybridSingle(user, thr, w, excluded) ==
    /\ Idle
    /\ user \in DOMAIN pmem[prefs]
    /\ excluded \notin DOMAIN pmem[prefs][user]
    /\ LET r == get_hybrid_recommendations_single(pmem[prefs], cmem, sim_matrix, user, thr, movies,
                                                  newMovies, itemsim, excluded, w)
       IN  /\ AfterCall([fn |-> "get_hybrid_recommendations_single", user |-> user, thr |-> thr,
                         weighted |-> w, n |-> 0, excluded |-> excluded], r)
           /\ ret' = IF r.exc # "" THEN <<>> ELSE <<r.rec>>
           /\ printed' = <<>>
    /\ UNCHANGED <<pmem, inVars, newPrefs, newMovies, userKeys, ui, outKeys, oi, save, rec,
                   error_list, true_list, pred_list, ws>>

CallTFIDFSingle(user, thr, excluded) ==
    /\ Idle
    /\ user \in DOMAIN pmem[prefs]
    /\ excluded \notin DOMAIN pmem[prefs][user]
    /\ LET r == get_TFIDF_recommendations_single(pmem[prefs], cmem, sim_matrix, user, thr, movies,
                                                 newMovies, itemsim, excluded)
       IN  /\ AfterCall([fn |-> "get_TFIDF_recommendations_single", user |-> user, thr |-> thr,
                         weighted |-> FALSE, n |-> 0, excluded |-> excluded], r)
           /\ ret' = IF r.exc # "" THEN <<>> ELSE <<r.rec>>
           /\ printed' = <<>>
    /\ UNCHANGED <<pmem, inVars, newPrefs, newMovies, userKeys, ui, outKeys, oi, save, rec,
                   error_list, true_list, pred_list, ws>>

\* movie_to_ID(movies)
movie_to_ID(mv) ==
    [t \in {mv[k] : k \in DOMAIN mv} |->
        CHOOSE k \in DOMAIN mv : mv[k] = t /\ \A k2 \in DOMAIN mv : mv[k2] = t => int(k2) <= int(k)]

InitRec ==
    /\ pc = "idle"
    /\ movies = Catalog4
    /\ prefs = 1
    /\ prefs0 \in {p \in PrefsInputs(Catalog4, MaxLines) : DOMAIN p \subseteq {"u1"}}
    /\ pmem = (1 :> prefs0)
    /\ sim_matrix = 1
    /\ cosim0 \in CosimInputs(4)
    /\ cmem = (1 :> cosim0)
    /\ itemsim \in ItemsimInputs
    /\ features = CHOOSE f \in FeatureInputs : TRUE
    /\ algo = ""
    /\ sim_threshold = RZero
    /\ weighted = FALSE
    /\ InitLocals
    /\ newMovies = movie_to_ID(Catalog4)
    /\ InitCall

NextRec ==
    \/ \E user \in Users, thr \in Thresholds, n \in 1..MaxN : CallTFIDF(user, thr, n)
    \/ \E user \in Users, thr \in Thresholds, w \in BOOLEAN, n \in 1..MaxN : CallHybrid(user, thr, w, n)
    \/ \E user \in Users, thr \in Thresholds, w \in BOOLEAN, x \in Titles(movies) :
           CallHybridSingle(user, thr, w, x)
    \/ \E user \in Users, thr \in Thresholds, x \in Titles(movies) : CallTFIDFSingle(user, thr, x)

SpecRec == InitRec /\ [][NextRec]_vars

-----------------------------------------------------------------------------
(* get_TFIDF_recommendations_single on binary64 cosine cells *)

\* Cosine cells as floats: 0.0, 0.05 and 0.3
F64Cells == {RZero, NumDiv(<<"f64", <<1>>, 0>>, RInt(20)), NumDiv(<<"f64", <<1, 1>>, 0>>, RInt(10))}

InitF64 ==
    /\ pc = "idle"
    /\ movies = Catalog3
    /\ prefs = 1
    /\ prefs0 \in {ToPrefs(g) : g \in [{"u1"} -> [Titles(Catalog3) -> {0, 1, 3}]]}
    /\ pmem = (1 :> prefs0)
    /\ sim_matrix = 1
    /\ cosim0 \in {Cosim(3, a, b) : a \in F64Cells, b \in F64Cells}
    /\ cmem = (1 :> cosim0)
    /\ itemsim = ItemsimGaps
    /\ features = CHOOSE f \in FeatureInputs : TRUE
    /\ algo = ""
    /\ sim_threshold = RZero
    /\ weighted = FALSE
    /\ InitLocals
    /\ newMovies = movie_to_ID(Catalog3)
    /\ InitCall

NextF64 ==
    \E user \in Users, thr \in {SIM_THRESHOLDS[1], SIM_THRESHOLDS[3]}, x \in Titles(movies) :
        CallTFIDFSingle(user, thr, x)

SpecF64 == InitF64 /\ [][NextF64]_vars

-----------------------------------------------------------------------------
(* The similarity functions called on their own *)

MaxK == 3

CallSim(fn, p1, p2, k) ==
    /\ Idle
    /\ p1 \in DOMAIN pmem[prefs]
    /\ p2 \in DOMAIN pmem[prefs]
    /\ call' = [fn |-> fn, p1 |-> p1, p2 |-> p2, k |-> k]
    /\ ret' = IF fn = "sim_distance" THEN sim_distance(pmem[prefs], p1, p2, k)
              ELSE sim_pearson(pmem[prefs], p1, p2, k)
    /\ pc' = "returned"
    /\ UNCHANGED <<pmem, cmem, exc, inVars, looVars, printed>>

\* topMatches as calculateSimilarItems calls it: on the transposed matrix, for
\* one of its items
CallTopMatches(person, n, fn, k, thr) ==
    /\ Idle
    /\ person \in DOMAIN transformPrefs(pmem[prefs])
    /\ call' = [fn |-> "topMatches", person |-> person, n |-> n, similarity |-> fn, k |-> k,
                sim_threshold |-> thr]
    /\ ret' = topMatches(transformPrefs(pmem[prefs]),
                         transformPrefs_keys(pmem[prefs], UserOrder, TitleOrder(movies)),
                         person, n, fn, k, thr)
    /\ pc' = "returned"
    /\ UNCHANGED <<pmem, cmem, exc, inVars, looVars, printed>>

\* itemPrefs = transformPrefs(prefs), and the transposition of its result
CallTransformPrefs ==
    /\ \/ Idle /\ ret' = transformPrefs(pmem[prefs]) /\ pc' = "transposed"
       \/ pc = "transposed" /\ ret' = transformPrefs(ret) /\ pc' = "returned"
    /\ call' = [fn |-> "transformPrefs"]
    /\ UNCHANGED <<pmem, cmem, exc, inVars, looVars, printed>>

InitSim ==
    /\ pc = "idle"
    /\ movies = Catalog3
    /\ prefs = 1
    /\ prefs0 \in PrefsInputs(Catalog3, len(Catalog3) * Cardinality(Users))
    /\ pmem = (1 :> prefs0)
    /\ sim_matrix = 1
    /\ cosim0 = Cosim(3, RZero, RZero)
    /\ cmem = (1 :> cosim0)
    /\ itemsim = ItemsimGaps
    /\ features = CHOOSE f \in FeatureInputs : TRUE
    /\ algo = ""
    /\ sim_threshold = RZero
    /\ weighted = FALSE
    /\ InitLocals
    /\ newMovies = <<>>
    /\ InitCall

NextSim ==
    \/ \E fn \in {"sim_distance", "sim_pearson"}, p1 \in Users, p2 \in Users, k \in 0..MaxK :
           CallSim(fn, p1, p2, k)
    \/ \E fn \in {"sim_distance", "sim_pearson"}, person \in Titles(movies), n \in 1..MaxN,
              k \in 0..MaxK, thr \in {SIM_THRESHOLDS[1], SIM_THRESHOLDS[3]} :
           CallTopMatches(person, n, fn, k, thr)
    \/ CallTransformPrefs

SpecSim == InitSim /\ [][NextSim]_vars

-----------------------------------------------------------------------------
(* get_FE_recommendations called on its own *)

Catalog13 == Catalog(13)

\* Feature matrices over thirteen items and two genres: every item in the first
\* genre; the first two items in no genre; the genres alternating; every third
\* item in no genre
Features13 ==
    { [k \in 1..13 |-> <<1, k % 2>>],
      [k \in 1..13 |-> IF k <= 2 THEN <<0, 0>> ELSE <<1, k % 2>>],
      [k \in 1..13 |-> <<k % 2, (k + 1) % 2>>],
      [k \in 1..13 |-> IF k % 3 = 0 THEN <<0, 0>> ELSE <<1, 1>>] }

CallFE(user, n) ==
    /\ Idle
    /\ LET r == get_FE_recommendations(pmem[prefs], features, newMovies, movies, user, n)
       IN  /\ call' = [fn |-> "get_FE_recommendations", user |-> user, n |-> n]
           /\ exc' = r.exc
           /\ pc' = IF r.exc # "" THEN "raised" ELSE "returned"
           /\ ret' = r.ret
    /\ UNCHANGED <<pmem, cmem, inVars, looVars, printed>>

InitFE ==
    /\ pc = "idle"
    /\ movies = Catalog13
    /\ prefs = 1
    /\ prefs0 \in {p \in PrefsInputs(Catalog3, MaxLines) : DOMAIN p \subseteq {"u1"}}
    /\ pmem = (1 :> prefs0)
    /\ sim_matrix = 1
    /\ cosim0 = Cosim(3, RZero, RZero)
    /\ cmem = (1 :> cosim0)
    /\ itemsim = ItemsimGaps
    /\ features \in Features13
    /\ algo = ""
    /\ sim_threshold = RZero
    /\ weighted = FALSE
    /\ InitLocals
    /\ newMovies = movie_to_ID(Catalog13)
    /\ InitCall

NextFE == \E user \in Users, n \in 1..MaxN : CallFE(user, n)

SpecFE == InitFE /\ [][NextFE]_vars

-----------------------------------------------------------------------------
(* The title-to-id mappings, over catalogs in which titles may repeat *)

\* Catalogs of four items: the data file gives every id a title, and nothing
\* keeps two ids from having the same one
CatalogInputs == [{str(i) : i \in 1..4} -> {"A", "B", "C", "D"}]

CallMovieToID ==
    /\ Idle
    /\ call' = [fn |-> "movie_to_ID"]
    /\ ret' = movie_to_ID(movies)
    /\ pc' = "returned"
    /\ UNCHANGED <<pmem, cmem, exc, inVars, looVars, printed>>

InitCat ==
    /\ pc \in {"idle", "loo_cv_sim"}
    /\ movies \in CatalogInputs
    /\ prefs = 1
    /\ prefs0 = [u \in {"u1"} |-> [t \in {movies["1"]} |-> 1]]
    /\ pmem = (1 :> prefs0)
    /\ sim_matrix = 1
    /\ cosim0 = Cosim(4, RZero, RZero)
    /\ cmem = (1 :> cosim0)
    /\ itemsim = ItemsimGaps
    /\ features = CHOOSE f \in FeatureInputs : TRUE
    /\ algo = "get_TFIDF_recommendations_single"
    /\ sim_threshold = RZero
    /\ weighted = FALSE
    /\ InitLocals
    /\ newMovies = <<>>
    /\ InitCall

\* movie_to_ID, and the first step of loo_cv_sim, which builds newMovies
NextCat == CallMovieToID \/ LooBegin

SpecCat == InitCat /\ [][NextCat]_vars

-----------------------------------------------------------------------------
(* to_string and to_docs *)

\* A Python string is the sequence of its characters.

\* str(v) for an integer v >= 0
RECURSIVE str_of_int(_)
str_of_int(v) ==
    LET DigitChars == <<"0", "1", "2", "3", "4", "5", "6", "7", "8", "9">>
    IN  IF v < 10 THEN <<DigitChars[v + 1]>>
        ELSE str_of_int(v \div 10) \o <<DigitChars[(v % 10) + 1]>>

\* row.strip(): the leading and the trailing whitespace removed
strip_nothing(t) == t
strip(t) ==
    LET Whitespace == {" ", "\t", "\n"}
        RECURSIVE lstrip(_)
        lstrip(x) == IF x # <<>> /\ Head(x) \in Whitespace THEN lstrip(Tail(x)) ELSE x
        RECURSIVE rstrip(_)
        rstrip(x) ==
            IF x # <<>> /\ x[Len(x)] \in Whitespace THEN rstrip(SubSeq(x, 1, Len(x) - 1)) ELSE x
    IN  rstrip(lstrip(t))

\* The inner loop of to_string: row += str(features[i][j])
RECURSIVE to_string_row(_, _, _)
to_string_row(frow, j, row) ==
    IF j > Len(frow) THEN row
    ELSE to_string_row(frow, j + 1, row \o str_of_int(frow[j]))

to_string(ft) == [i \in 1..Len(ft) |-> to_string_row(ft[i], 1, <<>>)]

\* The inner loop of to_docs: if doc_str[i] == '1': row += genres[i] + ' '
\* (i is the 0-based index of the code)
RECURSIVE to_docs_row(_, _, _, _)
to_docs_row(doc_str, g, i, row) ==
    IF i >= Len(doc_str) THEN row
    ELSE IF doc_str[i + 1] = "1" THEN to_docs_row(doc_str, g, i + 1, row \o g[i] \o <<" ">>)
    ELSE to_docs_row(doc_str, g, i + 1, row)

to_docs(features_str, g) ==
    [d \in 1..Len(features_str) |-> strip(to_docs_row(features_str[d], g, 0, <<>>))]

\* Genre dictionaries as from_file_to_2D builds them: index -> name, the names
\* stripped and not empty
GenreInputs ==
    { (0 :> <<"A", "c", "t", "i", "o", "n">> @@ 1 :> <<"C", "o", "m", "e", "d", "y">>
         @@ 2 :> <<"W", "a", "r">>),
      (0 :> <<"S", "c", "i", " ", "F", "i">> @@ 1 :> <<"X">> @@ 2 :> <<"F", "i", "l", "m">>) }

\* Feature matrices of two items and three genres, every cell 0 or 1
BinaryFeatures == [1..2 -> [1..3 -> {0, 1}]]

\* feature_str = to_string(features)
CallToString ==
    /\ Idle
    /\ call' = [fn |-> "to_string"]
    /\ ret' = to_string(features)
    /\ pc' = "to_string"
    /\ UNCHANGED <<pmem, cmem, exc, inVars, looVars, printed>>

\* feature_docs = to_docs(feature_str, genres)
CallToDocs(g) ==
    /\ pc = "to_string"
    /\ call' = [fn |-> "to_docs", genres |-> g]
    /\ ret' = to_docs(ret, g)
    /\ pc' = "returned"
    /\ UNCHANGED <<pmem, cmem, exc, inVars, looVars, printed>>

InitDocs ==
    /\ pc = "idle"
    /\ movies = Catalog(2)
    /\ prefs = 1
    /\ prefs0 = <<>>
    /\ pmem = (1 :> prefs0)
    /\ sim_matrix = 1
    /\ cosim0 = Cosim(2, RZero, RZero)
    /\ cmem = (1 :> cosim0)
    /\ itemsim = ItemsimGaps
    /\ features \in BinaryFeatures
    /\ algo = ""
    /\ sim_threshold = RZero
    /\ weighted = FALSE
    /\ InitLocals
    /\ newMovies = <<>>
    /\ InitCall

NextDocs == CallToString \/ \E g \in GenreInputs : CallToDocs(g)

SpecDocs == InitDocs /\ [][NextDocs]_vars

-----------------------------------------------------------------------------
(* Claims about the recommenders and the similarity functions *)

FullList == {"get_TFIDF_recommendations", "get_hybrid_recommendations"}
Hybrids  == {"get_hybrid_recommendations", "get_hybrid_recommendations_single"}

\* C4: the cosine matrix passed to get_hybrid_recommendations and
\* get_hybrid_recommendations_single is, cell for cell, the same after the call
\* as before it.
C4_CosimUnchanged == cmem[sim_matrix] = cosim0

\* C4 witness: a hybrid call has returned after filling in a zero cell.
C4_Witness == pc = "returned" /\ call.fn = "get_hybrid_recommendations" /\ fills # {}

\* C5: the list returned by get_TFIDF_recommendations and
\* get_hybrid_recommendations is in descending order of score and holds at most n
\* entries.
C5_SortedAndCapped ==
    (pc = "returned" /\ call.fn \in FullList) =>
        /\ Len(ret) <= call.n
        /\ \A k \in 1..(Len(ret) - 1) : ~FLt(ret[k][1], ret[k + 1][1])

\* C6: a hybrid fill-in never raises on an item-item lookup miss, whether item j is
\* missing from item i's row or item i has no row at all.
C6_LookupMissSkipped == call.fn \in Hybrids => exc # "KeyError: ii_matrix"

SharedCount == Cardinality(shared_items(pmem[prefs], call.p1, call.p2))

\* The same real number: two similarities of the same form and radicand
SameValue(a, b) ==
    /\ a[1] = b[1]
    /\ a[1] = "distance" => a[2] = b[2] /\ a[3] = b[3]
    /\ a[1] = "pearson"  => a[3] = b[3] /\ RMul(a[4], a[2]) = RMul(b[4], b[2])

\* A similarity times a rational
Scaled(a, q) ==
    IF a[1] = "distance" THEN <<"distance", a[2], RMul(a[3], q)>>
    ELSE IF a[1] = "pearson" THEN <<"pearson", a[2], a[3], RMul(a[4], q)>>
    ELSE a

\* C7: with k > 0 and non-zero variances, sim_pearson is the unweighted Pearson
\* similarity times m/k when m < k, and the unweighted one when m >= k.
C7_PearsonWeighting ==
    (pc = "returned" /\ call.fn = "sim_pearson" /\ call.k > 0
        /\ sim_pearson(pmem[prefs], call.p1, call.p2, 0)[1] = "pearson") =>
        LET unweighted == sim_pearson(pmem[prefs], call.p1, call.p2, 0)
        IN  SameValue(ret, IF SharedCount < call.k
                               THEN Scaled(unweighted, Rat(SharedCount, call.k))
                               ELSE unweighted)

\* The sum of the squared differences over the shared items, summed in the
\* order of the catalog
RECURSIVE SquaredDiffs(_, _, _, _)
SquaredDiffs(p, p1, p2, titles) ==
    IF titles = <<>> THEN 0
    ELSE (IF Head(titles) \in DOMAIN p[p1] \cap DOMAIN p[p2]
             THEN (p[p1][Head(titles)] - p[p2][Head(titles)]) * (p[p1][Head(titles)] - p[p2][Head(titles)])
             ELSE 0)
         + SquaredDiffs(p, p1, p2, Tail(titles))

\* C8: sim_distance is 0 when m = 0; else 1/(1 + sqrt(sum of squared differences)),
\* times m/k when k > 0 and m < k.
C8_DistanceWeighting ==
    (pc = "returned" /\ call.fn = "sim_distance") =>
        LET m  == SharedCount
            ss == RInt(SquaredDiffs(pmem[prefs], call.p1, call.p2, TitleOrder(movies)))
        IN  ret = IF m = 0 THEN <<"zero">>
                  ELSE IF call.k > 0 /\ m < call.k THEN <<"distance", ss, Rat(m, call.k)>>
                  ELSE <<"distance", ss, RInt(1)>>

\* C8 witness: a weighting that applies (m < k) and one that does not are both
\* cases of the claim; this is the first, on users who differ on a shared item.
C8_Witness ==
    /\ pc = "returned" /\ call.fn = "sim_distance"
    /\ SharedCount = 2 /\ call.k = 3
    /\ ret[1] = "distance" /\ ret[2] # RZero /\ ret[3] = Rat(2, 3)

\* The ratings of the call's user, none when the user is not in prefs
UserRatings == IF call.user \in DOMAIN pmem[prefs] THEN pmem[prefs][call.user] ELSE <<>>

\* The grand sum of the accumulator is zero: every item the user rated has no feature
GrandSumZero ==
    \A t \in DOMAIN UserRatings : \A f \in 1..Width(features) : features[int(newMovies[t])][f] = 0

\* C9: for a user whose accumulator has a zero grand sum (a user with no ratings
\* included), get_FE_recommendations returns the empty list and raises nothing.
C9_ZeroSumNoRecs ==
    (call.fn = "get_FE_recommendations" /\ GrandSumZero) => (pc = "returned" /\ ret = <<>>)

\* The scored candidates: the unrated items the loop does not skip, in the order
\* of the loop
Candidates ==
    LET fp    == feature_preference(features, UserRatings, newMovies)
        rated == rated_ids(UserRatings, newMovies)
        ids   == SelectSeq([k \in 1..Len(features) |-> k],
                           LAMBDA k : k \notin rated /\ FE_item(features, fp, k) # <<>>)
    IN  [k \in 1..Len(ids) |-> <<FE_item(features, fp, ids[k])[1], movies[str(ids[k])]>>]

\* C10: the list get_FE_recommendations returns is the candidates sorted once,
\* truncated to n when there are more than 10 of them; with more than 10
\* candidates it never holds more than n entries.
C10_SortOnceEquivalent ==
    (pc = "returned" /\ call.fn = "get_FE_recommendations") =>
        /\ ret = IF Len(Candidates) > 10 THEN Slice(sorted_reverse(Candidates), call.n)
                 ELSE sorted_reverse(Candidates)
        /\ Len(Candidates) > 10 => Len(ret) <= call.n

-----------------------------------------------------------------------------
(* Claims about the trials of loo_cv_sim *)

Lists == <<error_list, true_list, pred_list>>

\* The rating held out in the current trial, read from the input matrix
HeldOutTruth == RInt(prefs0[userKeys[ui]][outKeys[oi]])

\* C11: a trial appends one squared error and one (true, predicted) pair exactly
\* when the prediction is for the held-out item and is neither None nor 0, the
\* error being (true rating of the input matrix - prediction) squared; every
\* other trial, and every other step, leaves the three lists as they are.
C11_RecordsExactlyUsable ==
    [][IF pc = "record" /\ rec[2] = outKeys[oi] /\ rec[1] # None /\ rec[1] # RZero
          THEN /\ error_list' = Append(error_list, RMul(RSub(HeldOutTruth, rec[1]),
                                                        RSub(HeldOutTruth, rec[1])))
               /\ true_list' = Append(true_list, HeldOutTruth)
               /\ pred_list' = Append(pred_list, rec[1])
          ELSE Lists' = Lists]_vars

\* C11 witness: a finished run in which some trials were recorded and some not.
C11_Witness ==
    /\ pc = "done"
    /\ Len(error_list) >= 1
    /\ Len(error_list) < NumRatings(prefs0)
    /\ \E k \in 1..Len(error_list) : error_list[k] # RZero

\* C12: at every point of a run, coverage (the number of recorded predictions)
\* is at most the number of (user, item) rating pairs of prefs.
C12_CoverageBounded == Len(error_list) <= NumRatings(prefs0)

\* C12 witness: a finished run of several trials in which every rating was
\* predicted, so that the bound is met.
C12_Witness ==
    /\ pc = "done"
    /\ NumRatings(prefs0) >= 2
    /\ Len(error_list) = NumRatings(prefs0)

-----------------------------------------------------------------------------
(* Claims about the scores of the TF-IDF and hybrid recommenders *)

Singles == {"get_TFIDF_recommendations_single", "get_hybrid_recommendations_single"}
Scorers == FullList \cup Singles

IsHybridCall == call.fn \in Hybrids

RatingsOfCall == pmem[prefs][call.user]

\* The item-item value that stands in for a zero cosine cell (i, j): <<>> when
\* there is none to use
Substitute(i, j) ==
    IF movies[str(i)] \notin DOMAIN itemsim THEN <<>>
    ELSE IF movies[str(j)] \notin DOMAIN itemsim[movies[str(i)]] THEN <<>>
    ELSE IF RLe(itemsim[movies[str(i)]][movies[str(j)]], RZero) THEN <<>>
    ELSE <<IF call.weighted THEN RMul(itemsim[movies[str(i)]][movies[str(j)]], HYBRID_WEIGHTING)
           ELSE itemsim[movies[str(i)]][movies[str(j)]]>>

\* The weight of the rated neighbour j of item i: <<>> when the pair is skipped
PairWeight(i, j) ==
    IF NumLt(cosim0[i][j], call.thr) THEN <<>>
    ELSE IF IsHybridCall /\ cosim0[i][j] = RZero THEN Substitute(i, j)
    ELSE <<cosim0[i][j]>>

Neighbours(i) ==
    {j \in 1..Len(cosim0) : j # i /\ movies[str(j)] \in DOMAIN RatingsOfCall /\ PairWeight(i, j) # <<>>}

Numerator(i) ==
    SumSet(Neighbours(i), [j \in Neighbours(i) |->
                              RMul(RInt(RatingsOfCall[movies[str(j)]]), PairWeight(i, j)[1])])
Denominator(i) == SumSet(Neighbours(i), [j \in Neighbours(i) |-> PairWeight(i, j)[1]])

BothPositive(i) == RLt(RZero, Numerator(i)) /\ RLt(RZero, Denominator(i))

\* C13: a score for item i is produced only when the numerator and the
\* denominator are both strictly positive, and is then their quotient; otherwise
\* item i is absent from the list (None in the single-item variants), and the
\* call ends with no arithmetic error.
C13_ScoreOnlyWhenPositive ==
    /\ (call.fn \in Scorers) => exc \in {"", "KeyError: prefs", "KeyError: ii_matrix"}
    /\ (pc = "returned" /\ call.fn \in FullList) =>
           \A i \in 1..Len(cosim0) :
               LET entries == {k \in 1..Len(ret) : ret[k][2] = movies[str(i)]}
               IN  IF movies[str(i)] \notin DOMAIN RatingsOfCall /\ BothPositive(i)
                      THEN /\ Cardinality(entries) = 1
                           /\ \A k \in entries : ret[k][1] = RDiv(Numerator(i), Denominator(i))
                      ELSE entries = {}
    /\ (pc = "returned" /\ call.fn \in Singles) =>
           LET i == int(newMovies[call.excluded])
           IN  /\ ret[1][2] = call.excluded
               /\ ret[1][1] = IF BothPositive(i) THEN RDiv(Numerator(i), Denominator(i)) ELSE None

\* C13 witness: a full-list TF-IDF call that scored one unrated item and left
\* out another, whose only rated neighbour has weight 0.
C13_Witness ==
    /\ pc = "returned" /\ call.fn = "get_TFIDF_recommendations"
    /\ ret # <<>>
    /\ \E i \in 1..Len(cosim0) :
           /\ movies[str(i)] \notin DOMAIN RatingsOfCall
           /\ Neighbours(i) # {}
           /\ Denominator(i) = RZero
           /\ \A k \in 1..Len(ret) : ret[k][2] # movies[str(i)]

\* C14: in the hybrid scorers a substitution is made only for a pair whose
\* cosine cell is exactly 0; a pair whose cosine is positive but below the
\* threshold is skipped and its weight is never replaced by an item-item value.
C14_SubstituteOnlyForZero ==
    (call.fn \in Hybrids) =>
        \A f \in fills : cosim0[f.i][f.j] = RZero /\ ~RLt(cosim0[f.i][f.j], call.thr)

\* C14 witness: a hybrid call has returned past a rated neighbour j of an unrated
\* item i whose cosine is positive and below the threshold, with an item-item
\* value at hand for the pair, and has substituted nothing.
C14_Witness ==
    /\ pc = "returned" /\ call.fn = "get_hybrid_recommendations"
    /\ \E i \in 1..Len(cosim0), j \in 1..Len(cosim0) :
           /\ movies[str(i)] \notin DOMAIN RatingsOfCall
           /\ movies[str(j)] \in DOMAIN RatingsOfCall
           /\ RLt(RZero, cosim0[i][j]) /\ RLt(cosim0[i][j], call.thr)
           /\ Substitute(i, j) # <<>>
    /\ fills = {}

\* C15: in get_hybrid_recommendations, when the cosine cell of (i, j) is 0 and
\* ii_matrix holds a positive s for the pair, the weight used for it is 0.75 * s
\* when weighted is true and s when it is false; the score of item i is the
\* quotient of the sums taken with that weight.
C15_FillWeight ==
    (pc = "returned" /\ call.fn = "get_hybrid_recommendations") =>
        \A f \in fills :
            LET s == itemsim[movies[str(f.i)]][movies[str(f.j)]]
                u == IF call.weighted THEN RMul(Rat(75, 100), s) ELSE s
                others == {j \in Neighbours(f.i) : cosim0[f.i][j] # RZero}
                filled == {g \in fills : g.i = f.i}
                num == RAdd(SumSet(others, [j \in others |->
                                 RMul(RInt(RatingsOfCall[movies[str(j)]]), cosim0[f.i][j])]),
                            SumSet(filled, [g \in filled |->
                                 RMul(RInt(RatingsOfCall[movies[str(g.j)]]), g.used)]))
                den == RAdd(SumSet(others, [j \in others |-> cosim0[f.i][j]]),
                            SumSet(filled, [g \in filled |-> g.used]))
            IN  /\ cosim0[f.i][f.j] = RZero
                /\ RLt(RZero, s)
                /\ f.s = s
                /\ f.used = u
                /\ \E k \in 1..Len(ret) : ret[k] = <<RDiv(num, den), movies[str(f.i)]>>

\* C15 witness: the scenario s = 0.8, weighted = True, effective weight 0.6, in
\* a call that has returned a score for the item.
C15_Witness ==
    /\ pc = "returned" /\ call.fn = "get_hybrid_recommendations" /\ call.weighted
    /\ \E f \in fills : f.s = Rat(8, 10) /\ f.used = Rat(6, 10)

-----------------------------------------------------------------------------
(* Claims about topMatches *)

Anchors     == transformPrefs(pmem[prefs])
AnchorOrder == transformPrefs_keys(pmem[prefs], UserOrder, TitleOrder(movies))
Others      == DOMAIN Anchors \ {call.person}
Included    == {ret[q][2] : q \in 1..Len(ret)}
Score(o)    == similarity(call.similarity, Anchors, call.person, o, call.k)
Tied(a, b)  == ~SimLt(Score(a), Score(b)) /\ ~SimLt(Score(b), Score(a))

\* C16: topMatches returns at most n entries, never person itself, each with
\* its similarity to person, and they are the n highest-scoring other anchors:
\* no anchor left out scores strictly higher than one that is included.
C16_TopN ==
    (pc = "returned" /\ call.fn = "topMatches") =>
        /\ Len(ret) <= call.n
        /\ Len(ret) = IF Cardinality(Others) < call.n THEN Cardinality(Others) ELSE call.n
        /\ Included \subseteq Others
        /\ Cardinality(Included) = Len(ret)
        /\ \A q \in 1..Len(ret) : ret[q][1] = Score(ret[q][2])
        /\ \A e \in Included, o \in Others \ Included : ~SimLt(Score(e), Score(o))

\* C16 witness: a call that cut the list, leaving out an anchor that comes
\* earlier in the iteration order and scores strictly lower than the one kept.
C16_Witness ==
    /\ pc = "returned" /\ call.fn = "topMatches"
    /\ Len(ret) = call.n
    /\ \E o \in Others \ Included :
           /\ SimLt(Score(o), Score(ret[1][2]))
           /\ IndexOf(AnchorOrder, o) < IndexOf(AnchorOrder, ret[1][2])

\* C17: candidates that tie on score are ordered by their iteration order in
\* prefs, so that at the cutoff the tied candidates that come earlier are kept.
C17_TiesInIterationOrder ==
    (pc = "returned" /\ call.fn = "topMatches") =>
        /\ \A e \in Included, o \in Others \ Included :
               Tied(e, o) => IndexOf(AnchorOrder, e) < IndexOf(AnchorOrder, o)
        /\ \A q \in 1..Len(ret), r \in 1..Len(ret) :
               (q < r /\ Tied(ret[q][2], ret[r][2])) =>
                   IndexOf(AnchorOrder, ret[q][2]) < IndexOf(AnchorOrder, ret[r][2])

-----------------------------------------------------------------------------
(* Claims about the feature-encoding recommenders *)

MaxScale == 3

\* The rating matrix with every rating of user multiplied by c
ScaledRatings(p, user, c) ==
    [u \in DOMAIN p |-> IF u = user THEN [t \in DOMAIN p[u] |-> c * p[u][t]] ELSE p[u]]

RemainingSumZero ==
    \A t \in DOMAIN pmem[newPrefs][userKeys[ui]] :
        \A f \in 1..Width(features) : features[int(newMovies[t])][f] = 0

\* C19: get_FE_recommendations_single returns (None, excluded) whenever the
\* grand sum is zero, its second component is always the excluded title, and it
\* never raises into loo_cv_sim.
C19_NoneWhenUndefined ==
    (algo = "get_FE_recommendations_single") =>
        /\ exc \in {"", "ValueError"}
        /\ (pc = "restore") =>
               /\ rec[2] = outKeys[oi]
               /\ RemainingSumZero => rec[1] = None

-----------------------------------------------------------------------------
(* Claims about the catalog *)

\* C20: the title-to-id mapping built by movie_to_ID, and the one built inside
\* loo_cv_sim, is the inverse of the catalog: title_to_id[movies[k]] = k for
\* every item id k.
C20_InverseOfCatalog ==
    /\ (pc = "returned" /\ call.fn = "movie_to_ID") =>
           \A k \in DOMAIN movies : ret[movies[k]] = k
    /\ (pc \in {"remove", "report"}) =>
           \A k \in DOMAIN movies : newMovies[movies[k]] = k

-----------------------------------------------------------------------------
(* Claims about the documents *)

\* The names of the genres a row has, from column c on, each after a single space
RECURSIVE RestOfDocument(_, _, _)
RestOfDocument(frow, g, c) ==
    IF c > Len(frow) THEN <<>>
    ELSE (IF frow[c] = 1 THEN <<" ">> \o g[c - 1] ELSE <<>>) \o RestOfDocument(frow, g, c + 1)

\* The document of a row: the names of its genres, in column order, with a
\* single space between two of them
Document(frow, g) ==
    IF RestOfDocument(frow, g, 1) = <<>> THEN <<>> ELSE Tail(RestOfDocument(frow, g, 1))

\* C21: to_docs(to_string(features), genres) gives, for every binary row, the
\* names of the genres of the columns set to 1, in column order, separated by
\* single spaces, with no trailing whitespace; an all-zero row gives the empty
\* document.
C21_DocumentOfRow ==
    (pc = "returned" /\ call.fn = "to_docs") =>
        /\ Len(ret) = Len(features)
        /\ \A r \in 1..Len(features) : ret[r] = Document(features[r], call.genres)

\* C21 witness: the documents of an all-zero row and of a row with two genres.
C21_Witness ==
    /\ pc = "returned" /\ call.fn = "to_docs"
    /\ features[1] = <<0, 0, 0>> /\ ret[1] = <<>>
    /\ features[2] = <<1, 0, 1>>
    /\ ret[2] = <<"A", "c", "t", "i", "o", "n", " ", "W", "a", "r">>

-----------------------------------------------------------------------------
(* Claims about the trials of loo_cv_sim *)

\* The (user, item) pairs of the ratings of prefs, user by user, in the order
\* of the two loops
RECURSIVE TrialsOf(_)
TrialsOf(users) ==
    IF users = <<>> THEN <<>>
    ELSE LET items == KeyList(prefs0[Head(users)], TitleOrder(movies))
         IN  [k \in 1..Len(items) |-> <<Head(users), items[k]>>] \o TrialsOf(Tail(users))

Trials == TrialsOf(KeyList(prefs0, UserOrder))

\* The number of the trial the loops are in (0: none)
TrialNo == IF ui = 0 THEN 0 ELSE Len(TrialsOf(SubSeq(userKeys, 1, ui - 1))) + oi

\* C22: whenever the scoring algorithm is invoked, the working copy is the
\* original rating matrix minus exactly the entry held out in that trial (no
\* earlier removal is still in effect); the trials hold out the ratings of
\* prefs one after the other, each rating in exactly one trial.
C22_OneHeldOutPerTrial ==
    /\ [](pc = "call" =>
            /\ DOMAIN pmem[newPrefs] = DOMAIN prefs0
            /\ \A u \in DOMAIN prefs0 :
                  /\ DOMAIN pmem[newPrefs][u] =
                        {t \in DOMAIN prefs0[u] : <<u, t>> # <<i_, out_>>}
                  /\ \A t \in DOMAIN pmem[newPrefs][u] : pmem[newPrefs][u][t] = prefs0[u][t]
            /\ out_ \in DOMAIN prefs0[i_]
            /\ <<i_, out_>> = Trials[TrialNo])
    /\ [](\A a, b \in 1..Len(Trials) : Trials[a] = Trials[b] => a = b)
    /\ []({Trials[a] : a \in 1..Len(Trials)} =
             {e \in (DOMAIN prefs0) \X Titles(movies) : e[2] \in DOMAIN prefs0[e[1]]})
    /\ [][pc' = "remove" => TrialNo' = (IF pc = "record" THEN TrialNo + 1 ELSE 1)]_vars
    /\ [](pc \in {"report", "done"} => TrialNo = Len(Trials))

\* C22 witness: the scoring algorithm is invoked in a user's second trial, after
\* the rating of the first trial was put back.
C22_Witness ==
    /\ pc = "call"
    /\ oi = 2
    /\ outKeys[1] \in DOMAIN pmem[newPrefs][i_]
    /\ out_ \notin DOMAIN pmem[newPrefs][i_]

-----------------------------------------------------------------------------
(* Claims about the single-item variants *)

\* What get_FE_recommendations_single returns for the user of the call and the
\* excluded item x
SingleFE(x) ==
    get_FE_recommendations_single(pmem[prefs], features, cmem, call.user, sim_threshold, movies,
                                  newMovies, itemsim, x).rec

\* C23 (feature-encoding family): for an item x the user has not rated, the
\* single-item variant returns the score the full-list computation gives x
\* before sorting and truncation (the candidates), and returns no usable
\* prediction (None or 0) exactly when the full-list computation has no entry
\* for x.
C23_SingleAgreesWithFull ==
    (pc = "returned" /\ call.fn = "get_FE_recommendations") =>
        LET c == Candidates
        IN  \A x \in Titles(movies) \ DOMAIN UserRatings :
                LET s == SingleFE(x)
                IN  /\ \A k \in 1..Len(c) : c[k][2] = x => s[1] = c[k][1]
                    /\ ~usable(s, x) <=> ~\E k \in 1..Len(c) : c[k][2] = x

-----------------------------------------------------------------------------
(* Claims about the similarity threshold *)

\* The threshold t >= 0 as a similarity of the kind of the score it is compared with
ThresholdAs(score, t) ==
    IF t = RZero \/ score[1] = "zero" THEN (IF t = RZero THEN <<"zero">> ELSE <<"distance", RZero, t>>)
    ELSE IF score[1] = "distance" THEN <<"distance", RZero, t>>
    ELSE <<"pearson", RInt(t[1]), RInt(t[2] * t[2]), RInt(1)>>

\* C24: every match topMatches returns has a similarity that is not below the
\* sim_threshold the call was given.
C24_MatchesMeetThreshold ==
    (pc = "returned" /\ call.fn = "topMatches") =>
        \A q \in 1..Len(ret) : ~SimLt(ret[q][1], ThresholdAs(ret[q][1], call.sim_threshold))

-----------------------------------------------------------------------------
(* Claims about the report of loo_cv_sim *)

\* C25: a run whose trials gave no usable prediction (prefs without ratings
\* included) still completes: from the end of the loops it returns the empty
\* error list and writes the worksheet row, with coverage 0.
C25_EmptyRunCompletes ==
    [][(pc = "report" /\ error_list = <<>>) =>
           (pc' = "done" /\ error_list' = <<>> /\ ws' # NoRow /\ ws'.H = RZero)]_vars

-----------------------------------------------------------------------------
(* Claims about the hybrid scorers above a positive threshold *)

\* C26: with sim_threshold > 0 (the cells of the cosine matrix being
\* non-negative) a hybrid scorer, full-list or single-item, ends as the TF-IDF
\* scorer does on the same arguments, with the same predictions, whatever
\* ii_matrix and weighted are, and fills in nothing.
C26_HybridIsTFIDFAboveZero ==
    (call.fn \in Hybrids /\ RLt(RZero, call.thr)) =>
        /\ fills = {}
        /\ IF call.fn = "get_hybrid_recommendations"
              THEN LET t == get_TFIDF_recommendations(pmem[prefs], cmem, sim_matrix, call.user,
                                                      call.thr, movies, call.n)
                   IN  exc = t.exc /\ ret = t.ret /\ printed = t.printed
              ELSE LET t == get_TFIDF_recommendations_single(pmem[prefs], cmem, sim_matrix,
                                call.user, call.thr, movies, newMovies, itemsim, call.excluded)
                   IN  exc = t.exc /\ ret = <<t.rec>>

\* C26 witness: a full-list hybrid call with a positive threshold has returned
\* scores, past a rated neighbour j of an unrated item i whose cosine cell is 0
\* and for which ii_matrix holds a positive value.
C26_Witness ==
    /\ pc = "returned" /\ call.fn = "get_hybrid_recommendations"
    /\ RLt(RZero, call.thr)
    /\ ret # <<>>
    /\ \E i, j \in 1..Len(cosim0) :
           /\ movies[str(i)] \notin DOMAIN RatingsOfCall
           /\ movies[str(j)] \in DOMAIN RatingsOfCall
           /\ cosim0[i][j] = RZero
           /\ movies[str(i)] \in DOMAIN itemsim
           /\ movies[str(j)] \in DOMAIN itemsim[movies[str(i)]]
           /\ RLt(RZero, itemsim[movies[str(i)]][movies[str(j)]])

-----------------------------------------------------------------------------
(* Claims about transformPrefs *)

\* C28: transformPrefs(prefs) holds result[item][user] = prefs[user][item] for
\* every rating and nothing else, transposing its result gives prefs back (every
\* user of prefs having a rating), and prefs itself is left as it was.
C28_TransposeIsInvolution ==
    /\ (pc = "transposed") =>
           /\ \A u \in DOMAIN prefs0 : \A t \in DOMAIN prefs0[u] :
                  t \in DOMAIN ret /\ u \in DOMAIN ret[t] /\ ret[t][u] = prefs0[u][t]
           /\ \A t \in DOMAIN ret : \A u \in DOMAIN ret[t] :
                  u \in DOMAIN prefs0 /\ t \in DOMAIN prefs0[u]
           /\ pmem[prefs] = prefs0
    /\ (pc = "returned" /\ call.fn = "transformPrefs") => (ret = prefs0 /\ pmem[prefs] = prefs0)

\* C28 witness: the transposition came back to a matrix of two users who rated
\* one item in common and one item each.
C28_Witness ==
    /\ pc = "returned" /\ call.fn = "transformPrefs"
    /\ DOMAIN ret = {"u1", "u2"}
    /\ DOMAIN ret["u1"] = {"A", "B"}
    /\ DOMAIN ret["u2"] = {"A", "C"}
    /\ ret["u1"]["A"] # ret["u2"]["A"]

-----------------------------------------------------------------------------
(* Claims about the range of the scores *)

\* The score lies between the smallest and the largest rating the user gave
\* to the neighbours contributing to the score of item i
WithinRatings(score, i) ==
    /\ \E j \in Neighbours(i) : ~NumLt(score, RInt(RatingsOfCall[movies[str(j)]]))
    /\ \E j \in Neighbours(i) : ~NumLt(RInt(RatingsOfCall[movies[str(j)]]), score)

\* C27: every score of the TF-IDF and hybrid scorers lies between the smallest
\* and the largest rating the user gave to the neighbour items contributing to
\* it (the cells of the cosine matrix being in [0, 1]).
C27_ScoreWithinRatings ==
    (pc = "returned" /\ call.fn \in Scorers) =>
        IF call.fn \in Singles
            THEN ret[1][1] # None => WithinRatings(ret[1][1], int(newMovies[call.excluded]))
            ELSE \A k \in 1..Len(ret) : WithinRatings(ret[k][1], int(newMovies[ret[k][2]]))

====
